---- MODULE Spec2Model ----
(***************************************************************************)
(* Model of the auto-capture decision core of zenscan-app:                 *)
(*   src/src/utils/autoCaptureController.ts  (AutoCaptureController)       *)
(*   src/src/utils/scanQualityAnalyzer.ts    (quality scores, corner       *)
(*                                            history tracker)             *)
(* Time is the value of Date.now() in milliseconds.                        *)
(***************************************************************************)
EXTENDS Integers, Sequences, FiniteSets, TLC

\* ------------------------------------------------------------------ bounds
\* Granularity of the modelled clock (ms between two readings that differ).
Tick == 500
\* Number of clock ticks explored after construction.
MaxTicks == 5
\* Largest number of entries kept in qualityHistory in the explored runs.
MaxHistory == 2
\* Largest number of entries kept in qualityHistory in the runs of the
\* shutter and of the fresh controller.
MaxManualHistory == 3
\* Largest number of entries kept in qualityHistory in the runs that ask
\* isQualityStable.
MaxStableHistory == 3
\* Number of camera frames fed to the frame pipeline.
MaxFrames == 100
\* Time between two camera frames of the frame pipeline, in ms.
FrameSpacing == 50
\* Time between two frames handed to the frame processor, in ms, and the
\* number of such steps of the clock.
FrameTick == 100
MaxFpTicks == 10
\* Largest number of takePhoto calls started and of callbacks waiting on the
\* JS thread.
MaxPhotos == 3
MaxQueued == 2
\* Date.now() at construction; epoch milliseconds are far above the debounce
\* interval, so a fresh controller is never inside its debounce window.
ClockStart == 2000

\* Number of quads handed to CornerHistoryTracker.add in the explored runs.
MaxAdds == 21
\* The same, in the runs where a caller also writes through getHistory().
MaxAliasAdds == 3
\* Samples with timestamp ClockStart / ClockStart - 1 in the histories handed
\* to calculateStabilityScore.
MaxRecent == 6
MaxEarly == 2
\* Largest height of the 100-wide outlines handed to calculateFillPercentage.
MaxFillHeight == 120
\* Largest inward shift (px) of a corner of the 100 x 100 outlines handed
\* to isValidQuadrilateral.
MaxSkew == 25
\* Largest side (in grid steps) of the rectangles handed to orderCorners.
MaxSide == 3
\* Largest width and height (px) handed to createDefaultCorners.
MaxDim == 14

MaxTime == ClockStart + MaxTicks * Tick

\* ------------------------------------------------------- program constants
\* private minTimeBetweenCaptures = 2000
MinTimeBetweenCaptures == 2000
\* qualityHistory keeps the last 3 seconds
HistoryWindowMs == 3000
\* readyStartTime: number | null  -- null is modelled as -1
NullTime == 0 - 1

\* CornerHistoryTracker: private maxHistory = 20
MaxCornerHistory == 20
\* CornerHistoryTracker.add keeps the last 1000 ms
CornerRetentionMs == 1000

\* const OPTIMAL_FILL_MIN = 0.60
OptimalFillMin == <<3, 5>>
\* const OPTIMAL_FILL_MAX = 0.90
OptimalFillMax == <<9, 10>>
\* const STABILITY_WINDOW_MS = 500
StabilityWindowMs == 500
\* const STABILITY_THRESHOLD_PX = 10
StabilityThresholdPx == 10
\* recentHistory.length < 5
MinStabilitySamples == 5
\* no score has been computed
NoScore == 0 - 1
\* an angle that is NaN (degrees are whole numbers otherwise)
NaNDeg == 0 - 1
\* a coordinate that is NaN (coordinates are whole pixels otherwise)
NaNCoord == 0 - 1000
\* corners closer than this are too close together
MinCornerDistance == 10

\* AutoCaptureConfig defaults set by the constructor
DefaultConfig ==
  [enabled |-> TRUE, minQualityScore |-> 80, holdDurationMs |-> 1500,
   vibrateFeedback |-> TRUE]

\* ------------------------------------------------------------ input sets
\* QualityScore inputs: only `overall` and `level` are read by the controller.
Overalls == {60, 80}
Levels == {"poor", "good"}
Qualities == [overall : Overalls, level : Levels]

\* Values a caller supplies through updateConfig.
MinScores == {80}
HoldDurations == {0, 1500, 2500}
ConfigFields == {"enabled", "minQualityScore", "holdDurationMs", "vibrateFeedback"}
Configs ==
  [enabled : BOOLEAN, minQualityScore : MinScores,
   holdDurationMs : HoldDurations, vibrateFeedback : {TRUE}]
\* Partial<AutoCaptureConfig>: the set of supplied fields and their values;
\* the explored calls supply no field or one field.
Partials ==
  {p \in [has : SUBSET ConfigFields, val : Configs] :
     /\ Cardinality(p.has) <= 1
     /\ \A f \in ConfigFields \ p.has : p.val[f] = DefaultConfig[f]}

\* Partial<AutoCaptureConfig> with any set of supplied fields, every field
\* taking more than one value (explored by SpecConfig).
AllMinScores == {50, 80}
AllConfigs ==
  [enabled : BOOLEAN, minQualityScore : AllMinScores,
   holdDurationMs : HoldDurations, vibrateFeedback : BOOLEAN]
AllPartials ==
  {p \in [has : SUBSET ConfigFields, val : AllConfigs] :
     \A f \in ConfigFields \ p.has : p.val[f] = DefaultConfig[f]}

VARIABLES
  now,              \* Date.now()
  config,           \* this.config
  qualityHistory,   \* this.qualityHistory
  readyStartTime,   \* this.readyStartTime (NullTime for null)
  lastCaptureTime,  \* this.lastCaptureTime
  ret,              \* what the step just taken returned (op = "void" if nothing)
  lastFire,         \* time of the last processQuality that returned shouldCapture
  prevFire,         \* time of the one before it
  afterFire,        \* no qualifying frame was processed since the last fire
  streak,           \* what happened since readyStartTime was last set from null
  streakStart,      \* time of the frame that set readyStartTime from null
  stream,           \* progress of the synthetic quality stream (SpecStream)
  cornerHistory,    \* CornerHistoryTracker: the array this.history refers to
  held,             \* the array a caller got from getHistory(): "none",
                    \* "live" (it is this.history) or "stale" (it no longer is)
  supplied,         \* number of quads handed to add() so far
  stab,             \* calculateStabilityScore: its arguments and its result
  fillc,            \* calculateFillPercentage / calculateFillScore: arguments
                    \* and results
  comp,             \* the composite of analyzeScanQuality: sub-scores, overall
                    \* and level
  rect,             \* isValidQuadrilateral (documentTypeDetector): argument
                    \* and result
  anz,              \* analyzeScanQuality on an outline: arguments and result
  geo,              \* the corner validators: arguments and results
  ord,              \* orderCorners: argument and result
  dflt,             \* createDefaultCorners and the validators on its result
  manual,           \* observer of manualCapture(): when it was last called and
                    \* whether a hold streak was running then
  stable,           \* isQualityStable: its arguments and its result
  e2e,              \* the camera screen's frame pipeline: frames handled and
                    \* the scores of the last one
  fp,               \* the frame processor's shared values (camera.tsx)
  cam,              \* the camera screen's capture state (camera.tsx)
  crop              \* detectEdges / applyPerspectiveCorrection: arguments
                    \* and results

ctlVars == <<now, config, qualityHistory, readyStartTime, lastCaptureTime>>
obsVars == <<ret, lastFire, prevFire, afterFire, streak, streakStart>>
trkVars == <<cornerHistory, held, supplied>>
calcVars == <<stab, fillc, comp>>
geoVars == <<rect, anz, geo, ord, dflt>>
appVars == <<manual, stable, e2e, fp, cam, crop>>
vars == <<ctlVars, obsVars, stream, trkVars, calcVars, geoVars, appVars>>

\* ------------------------------------------------------------- helpers
Max(a, b) == IF a >= b THEN a ELSE b

\* progress is a number; it is kept as an exact fraction <<num, den>>.
\* <<0, 0>> is NaN (0 / 0).
Zero == <<0, 1>>
One == <<1, 1>>
NaN == <<0, 0>>

\* Exact arithmetic on non-negative fractions with positive denominators,
\* kept in lowest terms.
RECURSIVE GCD(_, _)
GCD(a, b) == IF b = 0 THEN a ELSE GCD(b, a % b)
Frac(n, d) == LET g == GCD(n, d) IN <<n \div g, d \div g>>
FracLt(a, b) == a[1] * b[2] < b[1] * a[2]
FracMax(a, b) == IF FracLt(a, b) THEN b ELSE a
FracMul(a, b) == Frac(a[1] * b[1], a[2] * b[2])
FracDiv(a, b) == Frac(a[1] * b[2], a[2] * b[1])
FracSub(a, b) == Frac(a[1] * b[2] - b[1] * a[2], a[2] * b[2])
Whole(n) == <<n, 1>>

\* Math.min(1, elapsed / holdDurationMs)
Progress(elapsed, hold) ==
  IF hold = 0
    THEN IF elapsed = 0 THEN NaN ELSE One
    ELSE IF elapsed >= hold THEN One
         ELSE IF elapsed = 0 THEN Zero ELSE <<elapsed, hold>>

\* Math.max(0, holdDurationMs - elapsed)
TimeRemaining(elapsed, hold) == Max(0, hold - elapsed)

\* mutant: the threshold comparison is strict
Qualifies_Strict(q, cfg) == q.overall > cfg.minQualityScore /\ q.level = "good"

\* meetsThreshold && quality.level === 'good'
Qualifies(q, cfg) == q.overall >= cfg.minQualityScore /\ q.level = "good"

\* mutant: the hold period is not required
ShouldCapture_NoHold(elapsed, hold, t, lct) ==
  t - lct >= MinTimeBetweenCaptures

\* mutant: the interval comparison is strict
ShouldCapture_Strict(elapsed, hold, t, lct) ==
  elapsed >= hold /\ t - lct > MinTimeBetweenCaptures

\* mutant: the interval between captures is not required
ShouldCapture_NoDebounce(elapsed, hold, t, lct) == elapsed >= hold

\* elapsed >= holdDurationMs && now - lastCaptureTime >= minTimeBetweenCaptures
ShouldCapture(elapsed, hold, t, lct) ==
  elapsed >= hold /\ t - lct >= MinTimeBetweenCaptures

\* mutant: every qualifying frame restarts the timer
StartOrContinue_Restart(rst, t) == t

\* if (this.readyStartTime === null) this.readyStartTime = now
StartOrContinue(rst, t) == IF rst = NullTime THEN t ELSE rst

\* qualityHistory.push(..) then filter(h => h.timestamp >= cutoff)
PushAndTrim(hist, score, t) ==
  SelectSeq(Append(hist, [score |-> score, timestamp |-> t]),
            LAMBDA h : h.timestamp >= t - HistoryWindowMs)

\* mutant: a dip leaves the timer running
DroppedReadyStart_Keep(rst) == rst

\* readyStartTime written by the quality-insufficient branch
DroppedReadyStart(rst) == NullTime

\* mutant: the disabled branch reports the hold duration as remaining
DisabledState_HoldRemaining ==
  [op |-> "processQuality", isReady |-> FALSE, progress |-> Zero,
   timeRemaining |-> config.holdDurationMs, shouldCapture |-> FALSE,
   was |-> readyStartTime]

\* the AutoCaptureState returned while config.enabled is false
DisabledState ==
  [op |-> "processQuality", isReady |-> FALSE, progress |-> Zero,
   timeRemaining |-> 0, shouldCapture |-> FALSE, was |-> readyStartTime]

\* no AutoCaptureState is in hand (void call, or the state was consumed)
VoidRet ==
  [op |-> "void", isReady |-> FALSE, progress |-> Zero,
   timeRemaining |-> 0, shouldCapture |-> FALSE, was |-> NullTime]

\* mutant: the update replaces the whole config
MergeConfig_Replace(cfg, p) == p.val

\* { ...this.config, ...config }
MergeConfig(cfg, p) ==
  [f \in ConfigFields |-> IF f \in p.has THEN p.val[f] ELSE cfg[f]]

\* mutant: reset() leaves the timer running
ResetReadyStart_Keep(rst) == rst

\* reset(): this.readyStartTime = null
ResetReadyStart(rst) == NullTime

\* mutant: reset() keeps the history
ResetHistory_Keep(hist) == hist

\* reset(): this.qualityHistory = []
ResetHistory(hist) == <<>>

\* mutant: firing does not record the capture time
LastCaptureAfter_Keep(fire, t, lct) == lct

\* if (shouldCapture) this.lastCaptureTime = now
LastCaptureAfter(fire, t, lct) == IF fire THEN t ELSE lct

\* isInProgress()
IsInProgress == readyStartTime # NullTime

\* progress >= 0.5 (false for NaN)
AtLeastHalf(p) == p[2] # 0 /\ 2 * p[1] >= p[2]

\* mutant: the half-way pattern is looked at before the capture pattern
GetHapticPattern_MediumFirst(state) ==
  IF state.isReady /\ AtLeastHalf(state.progress) THEN "medium"
  ELSE IF state.shouldCapture THEN "heavy"
  ELSE IF state.isReady /\ state.progress = Zero THEN "light"
  ELSE "null"

\* getHapticPattern(state)
GetHapticPattern(state) ==
  IF state.shouldCapture THEN "heavy"
  ELSE IF state.isReady /\ AtLeastHalf(state.progress) THEN "medium"
  ELSE IF state.isReady /\ state.progress = Zero THEN "light"
  ELSE "null"

\* ----------------------------------------------------------------- Init
\* A point is <<x, y>>; a quad is a DocumentCorners record.
Corners == {"topLeft", "topRight", "bottomRight", "bottomLeft"}
\* the outline at 10% inset of a 1000 x 1000 frame
BaseQuad ==
  [topLeft |-> <<100, 100>>, topRight |-> <<900, 100>>,
   bottomRight |-> <<900, 900>>, bottomLeft |-> <<100, 900>>]

StabIdle == [current |-> BaseQuad, history |-> <<>>, score |-> NoScore]

\* the controller and the tracker right after construction, the clock
\* reading start and the constructor having been given cfg
InitObjectsAt(start, cfg) ==
  /\ now = start
  /\ config = cfg
  /\ qualityHistory = <<>>
  /\ readyStartTime = NullTime
  /\ lastCaptureTime = 0
  /\ ret = VoidRet
  /\ lastFire = NullTime
  /\ prevFire = NullTime
  /\ afterFire = FALSE
  /\ streak = "none"
  /\ streakStart = NullTime
  /\ stream = [phase |-> "idle", start |-> NullTime, fires |-> 0]
  /\ cornerHistory = <<>>
  /\ held = "none"
  /\ supplied = 0

\* the default config, the clock reading ClockStart
InitObjects == InitObjectsAt(ClockStart, DefaultConfig)

FillIdle ==
  [corners |-> BaseQuad, frameWidth |-> 1000, frameHeight |-> 1000,
   done |-> FALSE, ratio |-> Zero, score |-> Zero]
CompIdle ==
  [fillPercentage |-> Zero, fillScore |-> Zero, stabilityScore |-> 0,
   sharpnessScore |-> 40, confidenceScore |-> 20, done |-> FALSE,
   overall |-> 0, level |-> "poor", recommendation |-> ""]

\* nothing has been handed to the geometry functions
Idle == [done |-> FALSE]
GeoIdle ==
  rect = Idle /\ anz = Idle /\ geo = Idle /\ ord = Idle /\ dflt = Idle
AppIdle ==
  /\ manual = Idle /\ stable = Idle /\ e2e = Idle
  /\ fp = Idle /\ cam = Idle /\ crop = Idle
ScoresIdle == stab = StabIdle /\ fillc = FillIdle /\ comp = CompIdle

Init == InitObjects /\ AppIdle /\ ScoresIdle /\ GeoIdle

\* -------------------------------------------------------------- actions
\* Observer of the hold streak that began when readyStartTime left null:
\*   "none"     no streak is running,
\*   "clean"    only qualifying frames were processed while enabled,
\*   "stale"    as clean, but a non-qualifying frame was swallowed while
\*              disabled,
\*   "resumed"  the first qualifying frame processed after a stale stretch,
\*   "dirty"    a non-qualifying frame was processed while enabled and the
\*              streak went on.
\* A streak that fired keeps its value until the next step.
StreakAfter(q, rstAfter) ==
  IF ~config.enabled
    THEN IF readyStartTime = NullTime THEN "none"
         ELSE IF ~Qualifies(q, config) /\ streak \in {"clean", "resumed"}
                THEN "stale"
         ELSE streak
    ELSE IF ~Qualifies(q, config)
           THEN IF rstAfter = NullTime THEN "none" ELSE "dirty"
           ELSE IF readyStartTime = NullTime \/ streak = "none" THEN "clean"
           ELSE IF streak = "stale" THEN "resumed"
           ELSE IF streak = "resumed" THEN "clean"
           ELSE streak

StreakKept == IF readyStartTime = NullTime THEN "none" ELSE streak
StreakStartKept == IF readyStartTime = NullTime THEN NullTime ELSE streakStart

\* processQuality(quality); cap bounds the length of the history explored
ProcessQualityWithin(q, cap) ==
  IF ~config.enabled
    THEN /\ ret' = DisabledState
         /\ streak' = StreakAfter(q, readyStartTime)
         /\ streakStart' = StreakStartKept
         /\ UNCHANGED <<ctlVars, lastFire, prevFire, afterFire>>
    ELSE
      LET hist == PushAndTrim(qualityHistory, q.overall, now) IN
      /\ Len(hist) <= cap
      /\ IF Qualifies(q, config)
           THEN
             LET rst == StartOrContinue(readyStartTime, now)
                 elapsed == now - rst
                 fire == ShouldCapture(elapsed, config.holdDurationMs, now,
                                       lastCaptureTime)
             IN
             /\ lastCaptureTime' = LastCaptureAfter(fire, now, lastCaptureTime)
             /\ readyStartTime' = IF fire THEN ResetReadyStart(rst) ELSE rst
             /\ qualityHistory' = IF fire THEN ResetHistory(hist) ELSE hist
             /\ ret' = [op |-> "processQuality", isReady |-> TRUE,
                        progress |-> Progress(elapsed, config.holdDurationMs),
                        timeRemaining |->
                          TimeRemaining(elapsed, config.holdDurationMs),
                        shouldCapture |-> fire,
                        was |-> readyStartTime]
             /\ lastFire' = IF fire THEN now ELSE lastFire
             /\ prevFire' = IF fire THEN lastFire ELSE prevFire
             /\ afterFire' = fire
             /\ streak' = StreakAfter(q, rst)
             /\ streakStart' =
                  IF readyStartTime = NullTime THEN now ELSE streakStart
           ELSE
             /\ readyStartTime' = DroppedReadyStart(readyStartTime)
             /\ qualityHistory' = hist
             /\ ret' = [op |-> "processQuality", isReady |-> FALSE,
                        progress |-> Zero,
                        timeRemaining |-> config.holdDurationMs,
                        shouldCapture |-> FALSE,
                        was |-> readyStartTime]
             /\ streak' = StreakAfter(q, readyStartTime')
             /\ streakStart' =
                  IF readyStartTime' = NullTime THEN NullTime ELSE streakStart
             /\ UNCHANGED <<lastCaptureTime, lastFire, prevFire, afterFire>>
      /\ UNCHANGED <<now, config>>

\* processQuality(quality)
ProcessQuality(q) == ProcessQualityWithin(q, MaxHistory)

\* updateConfig(config)
UpdateConfig(p) ==
  /\ config' = MergeConfig(config, p)
  /\ ret' = VoidRet
  /\ streak' = StreakKept
  /\ streakStart' = StreakStartKept
  /\ UNCHANGED <<now, qualityHistory, readyStartTime, lastCaptureTime,
                 lastFire, prevFire, afterFire>>

\* reset()
Reset ==
  /\ readyStartTime' = ResetReadyStart(readyStartTime)
  /\ qualityHistory' = ResetHistory(qualityHistory)
  /\ ret' = VoidRet
  /\ streak' = IF readyStartTime' = NullTime THEN "none" ELSE streak
  /\ streakStart' =
       IF readyStartTime' = NullTime THEN NullTime ELSE streakStart
  /\ UNCHANGED <<now, config, lastCaptureTime, lastFire, prevFire, afterFire>>

\* manualCapture()
ManualCapture ==
  /\ lastCaptureTime' = now
  /\ readyStartTime' = ResetReadyStart(readyStartTime)
  /\ qualityHistory' = ResetHistory(qualityHistory)
  /\ ret' = VoidRet
  /\ streak' = IF readyStartTime' = NullTime THEN "none" ELSE streak
  /\ streakStart' =
       IF readyStartTime' = NullTime THEN NullTime ELSE streakStart
  /\ UNCHANGED <<now, config, lastFire, prevFire, afterFire>>

\* The clock moves on between two calls.
Advance ==
  /\ now + Tick <= MaxTime
  /\ now' = now + Tick
  /\ ret' = VoidRet
  /\ streak' = StreakKept
  /\ streakStart' = StreakStartKept
  /\ UNCHANGED <<config, qualityHistory, readyStartTime, lastCaptureTime,
                 lastFire, prevFire, afterFire>>

Next ==
  \/ \E q \in Qualities : ProcessQuality(q) /\ UNCHANGED <<stream, trkVars, calcVars, geoVars, appVars>>
  \/ \E p \in Partials : UpdateConfig(p) /\ UNCHANGED <<stream, trkVars, calcVars, geoVars, appVars>>
  \/ Reset /\ UNCHANGED <<stream, trkVars, calcVars, geoVars, appVars>>
  \/ ManualCapture /\ UNCHANGED <<stream, trkVars, calcVars, geoVars, appVars>>
  \/ Advance /\ UNCHANGED <<stream, trkVars, calcVars, geoVars, appVars>>

Spec == Init /\ [][Next]_vars

\* ------------------------------------------------ synthetic quality stream
\* A fresh controller with the default config is fed frames that stay
\* >= 80 and 'good' until a frame has been processed holdDurationMs or more
\* after the first one, and then frames of overall 0.
GoodFrames == [overall : {80, 100}, level : {"good"}]
DropFrame == [overall |-> 0, level |-> "poor"]

StreamCount(fired) == IF fired THEN stream.fires + 1 ELSE stream.fires

StreamGood(q) ==
  /\ \/ stream.phase \in {"idle", "good"}
     \/ /\ stream.phase = "held"
        /\ now - stream.start <= config.holdDurationMs + Tick
  /\ ProcessQuality(q)
  /\ LET start == IF stream.phase = "idle" THEN now ELSE stream.start IN
     stream' = [phase |-> IF now - start >= config.holdDurationMs
                            THEN "held" ELSE "good",
                start |-> start,
                fires |-> StreamCount(ret'.shouldCapture)]

StreamDrop ==
  /\ stream.phase \in {"held", "dropped"}
  /\ ProcessQuality(DropFrame)
  /\ stream' = [stream EXCEPT !.phase = "dropped",
                              !.fires = StreamCount(ret'.shouldCapture)]

NextStream ==
  \/ \E q \in GoodFrames : StreamGood(q) /\ UNCHANGED <<trkVars, calcVars, geoVars, appVars>>
  \/ StreamDrop /\ UNCHANGED <<trkVars, calcVars, geoVars, appVars>>
  \/ Advance /\ UNCHANGED <<stream, trkVars, calcVars, geoVars, appVars>>

SpecStream == Init /\ [][NextStream]_vars

\* ------------------------------------------------- configuration updates
\* updateConfig with every partial config, between frames, manual captures
\* and resets made at one reading of the clock.
ConfigFrames == [overall : {80}, level : {"good"}]

NextConfig ==
  \/ \E p \in AllPartials : UpdateConfig(p) /\ UNCHANGED <<stream, trkVars, calcVars, geoVars, appVars>>
  \/ \E q \in ConfigFrames : ProcessQuality(q) /\ UNCHANGED <<stream, trkVars, calcVars, geoVars, appVars>>
  \/ ManualCapture /\ UNCHANGED <<stream, trkVars, calcVars, geoVars, appVars>>
  \/ Reset /\ UNCHANGED <<stream, trkVars, calcVars, geoVars, appVars>>

SpecConfig == Init /\ [][NextConfig]_vars

\* --------------------------------------------------- corner history tracker
\* A stored sample is { corners, timestamp }; the quad handed to the k-th
\* call of add() is written k.  add() reads Date.now() twice in a row; both
\* readings are the same millisecond.

\* mutant: the newest sample is dropped when the history is full
ShiftIfFull_Newest(hist) ==
  IF Len(hist) > MaxCornerHistory THEN SubSeq(hist, 1, Len(hist) - 1) ELSE hist

\* if (this.history.length > this.maxHistory) this.history.shift()
ShiftIfFull(hist) == IF Len(hist) > MaxCornerHistory THEN Tail(hist) ELSE hist

\* mutant: the retention filter keeps everything
Retain_All(hist, t) == hist

\* this.history.filter(h => h.timestamp >= cutoff), cutoff = Date.now() - 1000
Retain(hist, t) ==
  SelectSeq(hist, LAMBDA h : h.timestamp >= t - CornerRetentionMs)

\* getHistory(): return this.history
GetHistoryResult == "live"

\* what a reference handed out earlier refers to once this.history has been
\* assigned a new array
Detached(h) == IF h = "live" THEN "stale" ELSE h

\* add(corners)
TrackerAdd ==
  /\ supplied < MaxAdds
  /\ supplied' = supplied + 1
  /\ cornerHistory' =
       Retain(ShiftIfFull(Append(cornerHistory,
                                 [corners |-> supplied + 1,
                                  timestamp |-> now])), now)
  /\ held' = Detached(held)
  /\ UNCHANGED <<ctlVars, obsVars, stream, calcVars, geoVars, appVars>>

\* clear()
TrackerClear ==
  /\ cornerHistory' = <<>>
  /\ held' = Detached(held)
  /\ UNCHANGED <<ctlVars, obsVars, stream, supplied, calcVars, geoVars, appVars>>

\* const h = tracker.getHistory()
GetHistory ==
  /\ held' = GetHistoryResult
  /\ UNCHANGED <<ctlVars, obsVars, stream, cornerHistory, supplied, calcVars, geoVars, appVars>>

\* h.pop() by the caller holding h; on an array that is no longer
\* this.history it changes nothing of the tracker
CallerPop ==
  /\ held # "none"
  /\ cornerHistory' =
       IF held = "live" /\ cornerHistory # <<>>
         THEN SubSeq(cornerHistory, 1, Len(cornerHistory) - 1)
         ELSE cornerHistory
  /\ UNCHANGED <<ctlVars, obsVars, stream, held, supplied, calcVars, geoVars, appVars>>

NextTracker ==
  \/ TrackerAdd
  \/ TrackerClear
  \/ Advance /\ UNCHANGED <<stream, trkVars, calcVars, geoVars, appVars>>

SpecTracker == Init /\ [][NextTracker]_vars

NextAlias ==
  \/ TrackerAdd /\ supplied < MaxAliasAdds
  \/ TrackerClear
  \/ GetHistory
  \/ CallerPop
  \/ Advance /\ UNCHANGED <<stream, trkVars, calcVars, geoVars, appVars>>

SpecAlias == Init /\ [][NextAlias]_vars

\* ------------------------------------------------------- stability score
\* Distances are compared through their squares: for integer coordinates
\* Math.sqrt(d2) <= k holds exactly when d2 <= k * k.
MaxOf(S) == CHOOSE x \in S : \A y \in S : y <= x

\* distance(p1, p2), squared
DistanceSq(p1, p2) ==
  (p2[1] - p1[1]) * (p2[1] - p1[1]) + (p2[2] - p1[2]) * (p2[2] - p1[2])

\* Math.max(...movements) of one sample, squared
MovementSq(cur, h) ==
  MaxOf({DistanceSq(cur[c], h.corners[c]) : c \in Corners})

\* maxMovement over recentHistory, squared
MaxMovementSq(cur, recent) ==
  MaxOf({0} \cup {MovementSq(cur, recent[i]) : i \in 1..Len(recent)})

\* mutant: the 10 px comparison is strict
StabilityTier_Strict(m2) ==
  IF m2 < StabilityThresholdPx * StabilityThresholdPx THEN 100
  ELSE IF m2 <= 4 * StabilityThresholdPx * StabilityThresholdPx THEN 70
  ELSE IF m2 <= 9 * StabilityThresholdPx * StabilityThresholdPx THEN 40
  ELSE 20

\* maxMovement <= 10 / <= 20 / <= 30 / else
StabilityTier(m2) ==
  IF m2 <= StabilityThresholdPx * StabilityThresholdPx THEN 100
  ELSE IF m2 <= 4 * StabilityThresholdPx * StabilityThresholdPx THEN 70
  ELSE IF m2 <= 9 * StabilityThresholdPx * StabilityThresholdPx THEN 40
  ELSE 20

\* mutant: every sample counts, whatever its age
RecentHistory_All(hist, t) == hist

\* history.filter(h => now - h.timestamp <= STABILITY_WINDOW_MS)
RecentHistory(hist, t) ==
  SelectSeq(hist, LAMBDA h : t - h.timestamp <= StabilityWindowMs)

\* calculateStabilityScore(currentCorners, history) called at time t
CalculateStabilityScore(cur, hist, t) ==
  IF Len(hist) = 0 THEN 0
  ELSE LET recent == RecentHistory(hist, t) IN
       IF Len(recent) < MinStabilitySamples
         THEN (Len(recent) * 50) \div MinStabilitySamples
         ELSE StabilityTier(MaxMovementSq(cur, recent))

\* Displacements of one corner: 0, 10, just over 10, 20, just over 20, 30
\* and just over 30 px.
Moves == {<<0, 0>>, <<6, 8>>, <<10, 1>>, <<12, 16>>, <<20, 1>>, <<18, 24>>,
          <<30, 1>>}
EarlyMoves == {<<0, 0>>, <<30, 1>>}

Moved(q, c, d) == [q EXCEPT ![c] = <<q[c][1] + d[1], q[c][2] + d[2]>>]

\* A history as the tracker builds it, oldest first: m samples taken at
\* ClockStart - 1 with corner c moved by dEarly, then n samples taken at
\* ClockStart, the first with corner c moved by d1 and the last by d2.
MakeHistory(m, n, c, dEarly, d1, d2) ==
  [i \in 1..m |-> [corners |-> Moved(BaseQuad, c, dEarly),
                   timestamp |-> ClockStart - 1]]
  \o [i \in 1..n |-> [corners |-> IF i = n THEN Moved(BaseQuad, c, d2)
                                   ELSE IF i = 1 THEN Moved(BaseQuad, c, d1)
                                   ELSE BaseQuad,
                       timestamp |-> ClockStart]]

StabilityInputs ==
  {[current |-> BaseQuad,
    history |-> MakeHistory(m, n, c, dEarly, d1, d2),
    score |-> NoScore] :
     m \in 0..MaxEarly, n \in 0..MaxRecent, c \in Corners,
     dEarly \in EarlyMoves, d1 \in Moves, d2 \in Moves}

InitStability ==
  /\ InitObjects /\ AppIdle /\ stab \in StabilityInputs /\ fillc = FillIdle
  /\ comp = CompIdle /\ GeoIdle

\* const score = calculateStabilityScore(corners, history)
CalcStability ==
  /\ stab.score = NoScore
  /\ stab' = [stab EXCEPT
               !.score = CalculateStabilityScore(stab.current, stab.history,
                                                 now)]
  /\ UNCHANGED <<ctlVars, obsVars, stream, trkVars, fillc, comp, geoVars, appVars>>

\* the clock moves on; the score in hand belongs to the earlier reading
StabAdvance ==
  /\ Advance
  /\ stab' = [stab EXCEPT !.score = NoScore]
  /\ UNCHANGED <<stream, trkVars, fillc, comp, geoVars, appVars>>

NextStability == CalcStability \/ StabAdvance

SpecStability == InitStability /\ [][NextStability]_vars

\* ------------------------------------------------------------ fill score
Abs(x) == IF x < 0 THEN 0 - x ELSE x

\* twice the shoelace area of calculateFillPercentage
ShoelaceTwice(c) ==
  Abs(c.topLeft[1] * (c.topRight[2] - c.bottomLeft[2])
      + c.topRight[1] * (c.bottomRight[2] - c.topLeft[2])
      + c.bottomRight[1] * (c.bottomLeft[2] - c.topRight[2])
      + c.bottomLeft[1] * (c.topLeft[2] - c.bottomRight[2]))

\* calculateFillPercentage(corners, frameWidth, frameHeight):
\* Math.min(1, area / frameArea).  With frameArea = 0 the quotient is
\* 0 / 0 = NaN (Math.min(1, NaN) = NaN) or area / 0 = Infinity
\* (Math.min(1, Infinity) = 1).
CalculateFillPercentage(c, w, h) ==
  LET area2 == ShoelaceTwice(c)
      frameArea == w * h
  IN IF frameArea = 0
       THEN IF area2 = 0 THEN NaN ELSE One
       ELSE LET r == Frac(area2, 2 * frameArea) IN
            IF FracLt(One, r) THEN One ELSE r

\* mutant: the lower edge of the optimal band is scored as below the band
CalculateFillScore_EdgeOut(r) ==
  IF r = NaN THEN Whole(100)
  ELSE IF ~FracLt(OptimalFillMin, r)
    THEN FracMax(Zero, FracMul(FracDiv(r, OptimalFillMin), Whole(70)))
  ELSE IF FracLt(OptimalFillMax, r)
    THEN LET overflow == FracSub(r, OptimalFillMax) IN
         FracMax(Whole(40),
                 FracSub(Whole(100),
                         FracMul(FracDiv(overflow, <<1, 10>>), Whole(60))))
  ELSE Whole(100)

\* calculateFillScore(fillPercentage); every comparison with NaN is false
CalculateFillScore(r) ==
  IF r = NaN THEN Whole(100)
  ELSE IF FracLt(r, OptimalFillMin)
    THEN FracMax(Zero, FracMul(FracDiv(r, OptimalFillMin), Whole(70)))
  ELSE IF FracLt(OptimalFillMax, r)
    THEN LET overflow == FracSub(r, OptimalFillMax) IN
         FracMax(Whole(40),
                 FracSub(Whole(100),
                         FracMul(FracDiv(overflow, <<1, 10>>), Whole(60))))
  ELSE Whole(100)

\* Outlines: upright rectangles 100 wide, and the 10% inset outline.
Rect(w, h) ==
  [topLeft |-> <<0, 0>>, topRight |-> <<w, 0>>,
   bottomRight |-> <<w, h>>, bottomLeft |-> <<0, h>>]
FillQuads == {Rect(100, k) : k \in 0..MaxFillHeight} \cup {BaseQuad}
FrameSizes == {0, 100, 1000}

FillInputs ==
  {[corners |-> c, frameWidth |-> w, frameHeight |-> h,
    done |-> FALSE, ratio |-> Zero, score |-> Zero] :
     c \in FillQuads, w \in FrameSizes, h \in FrameSizes}

InitFill ==
  /\ InitObjects /\ AppIdle /\ stab = StabIdle /\ fillc \in FillInputs
  /\ comp = CompIdle /\ GeoIdle

\* fillPercentage = calculateFillPercentage(..);
\* fillScore = calculateFillScore(fillPercentage)
CalcFill ==
  /\ ~fillc.done
  /\ LET r == CalculateFillPercentage(fillc.corners, fillc.frameWidth,
                                      fillc.frameHeight)
     IN fillc' = [fillc EXCEPT !.done = TRUE, !.ratio = r,
                               !.score = CalculateFillScore(r)]
  /\ UNCHANGED <<ctlVars, obsVars, stream, trkVars, stab, comp, geoVars, appVars>>

NextFill == CalcFill

SpecFill == InitFill /\ [][NextFill]_vars

\* ------------------------------------------------------- composite score
\* Math.round(x) for x = n / d >= 0: the integer nearest to x, halves up
Round(x) == (2 * x[1] + x[2]) \div (2 * x[2])

\* fillScore * 0.25 + stabilityScore * 0.30 + sharpnessScore * 0.25
\*   + confidenceScore * 0.20
Weighted(f, st, sh, cf) ==
  Frac(100 * f[1] + f[2] * (4 * 30 * st + 4 * 25 * sh + 4 * 20 * cf),
       400 * f[2])

\* mutant: 70 itself is only fair
LevelOf_Strict(overall) ==
  IF overall > 70 THEN "good" ELSE IF overall >= 40 THEN "fair" ELSE "poor"

\* overall >= 70 -> 'good', overall >= 40 -> 'fair', else 'poor'
LevelOf(overall) ==
  IF overall >= 70 THEN "good" ELSE IF overall >= 40 THEN "fair" ELSE "poor"

\* the recommendation chosen at each level
Recommendation(level, fillPercentage, f, st, cf) ==
  LET small == fillPercentage # NaN /\ FracLt(fillPercentage, OptimalFillMin) IN
  IF level = "good"
    THEN IF st = 100 THEN "Hold steady - ready to capture!"
         ELSE "Keep steady..."
  ELSE IF level = "fair"
    THEN IF FracLt(f, Whole(60))
           THEN IF small THEN "Move closer to document"
                ELSE "Move back from document"
         ELSE IF st < 60 THEN "Hold device steady"
         ELSE "Improve lighting or focus"
  ELSE IF FracLt(f, Whole(40))
         THEN IF small THEN "Document too small - move closer"
              ELSE "Document too large - move back"
       ELSE IF cf < 40 THEN "Position document in frame"
       ELSE "Hold device steady and ensure good lighting"

\* The values calculateFillPercentage and the four sub-score functions
\* return.
FillRatios == {Frac(k, 100) : k \in 0..100} \cup {NaN}
FillScores == {CalculateFillScore(r) : r \in FillRatios}
StabilityScores == {0, 10, 20, 30, 40, 70, 100}
SharpnessScores == {40, 60, 80, 100}
ConfidenceScores == {20, 50, 70, 85, 100}

CompInputs ==
  {[fillPercentage |-> r, fillScore |-> CalculateFillScore(r),
    stabilityScore |-> st, sharpnessScore |-> sh,
    confidenceScore |-> cf, done |-> FALSE, overall |-> 0,
    level |-> "poor", recommendation |-> ""] :
     r \in FillRatios, st \in StabilityScores, sh \in SharpnessScores,
     cf \in ConfidenceScores}

InitComposite ==
  /\ InitObjects /\ AppIdle /\ stab = StabIdle /\ fillc = FillIdle
  /\ comp \in CompInputs /\ GeoIdle

\* overall = Math.round(..), then the level
CalcComposite ==
  /\ ~comp.done
  /\ LET overall == Round(Weighted(comp.fillScore, comp.stabilityScore,
                                   comp.sharpnessScore, comp.confidenceScore))
     IN comp' = [comp EXCEPT
                  !.done = TRUE, !.overall = overall,
                  !.level = LevelOf(overall),
                  !.recommendation =
                     Recommendation(LevelOf(overall), comp.fillPercentage,
                                    comp.fillScore, comp.stabilityScore,
                                    comp.confidenceScore)]
  /\ UNCHANGED <<ctlVars, obsVars, stream, trkVars, stab, fillc, geoVars, appVars>>

NextComposite == CalcComposite

SpecComposite == InitComposite /\ [][NextComposite]_vars

\* --------------------------------------------------------- rectangularity
Min(a, b) == IF a <= b THEN a ELSE b

\* Math.min(d1, d2) / Math.max(d1, d2) > 0.8 for two distances given by
\* their squares: min / max > 4/5 exactly when 25 min^2 > 16 max^2; with
\* max = 0 the quotient is NaN and the comparison is false.
SimilarSides(a2, b2) == 25 * Min(a2, b2) > 16 * Max(a2, b2)

\* isValidQuadrilateral(corners: DocumentCorners) of documentTypeDetector
IsValidQuadrilateral(c) ==
  /\ SimilarSides(DistanceSq(c.topLeft, c.topRight),
                  DistanceSq(c.bottomLeft, c.bottomRight))
  /\ SimilarSides(DistanceSq(c.topLeft, c.bottomLeft),
                  DistanceSq(c.topRight, c.bottomRight))

\* The 100 x 100 square with its top-left corner moved right by a and its
\* bottom-right corner moved up by b.
Skewed(a, b) ==
  [topLeft |-> <<a, 0>>, topRight |-> <<100, 0>>,
   bottomRight |-> <<100, 100 - b>>, bottomLeft |-> <<0, 100>>]

RectInputs ==
  {[corners |-> Skewed(a, b), done |-> FALSE, valid |-> FALSE] :
     a \in 0..MaxSkew, b \in 0..MaxSkew}

InitRect ==
  /\ InitObjects /\ AppIdle /\ ScoresIdle /\ rect \in RectInputs
  /\ anz = Idle /\ geo = Idle /\ ord = Idle /\ dflt = Idle

\* isValidQuadrilateral(corners)
CheckRect ==
  /\ ~rect.done
  /\ rect' = [rect EXCEPT !.done = TRUE,
                          !.valid = IsValidQuadrilateral(rect.corners)]
  /\ UNCHANGED <<ctlVars, obsVars, stream, trkVars, calcVars,
                 anz, geo, ord, dflt, appVars>>

NextRect == CheckRect

SpecRect == InitRect /\ [][NextRect]_vars

\* ------------------------------------------------- analyzeScanQuality
\* The direction of a vector: the vector divided by the gcd of its
\* components (<<0, 0>> for the zero vector).
Dir(v) ==
  LET g == GCD(Abs(v[1]), Abs(v[2])) IN
  IF g = 0 THEN <<0, 0>> ELSE <<v[1] \div g, v[2] \div g>>

\* The outlines handed to analyzeScanQuality have edges along the axes and
\* the diagonals only, so that every angle is a multiple of 45 degrees.
IsOctant(v) == v[1] = 0 \/ v[2] = 0 \/ Abs(v[1]) = Abs(v[2])

\* calculateAngle(p1, vertex, p2) in degrees.  The cosine depends on the
\* directions alone; with a zero-length edge it is 0 / 0 = NaN, and
\* Math.max(-1, Math.min(1, NaN)) and Math.acos(NaN) are NaN.
CalculateAngle(p1, vertex, p2) ==
  LET v1 == Dir(<<p1[1] - vertex[1], p1[2] - vertex[2]>>)
      v2 == Dir(<<p2[1] - vertex[1], p2[2] - vertex[2]>>)
      dot == v1[1] * v2[1] + v1[2] * v2[2]
      m1 == v1[1] * v1[1] + v1[2] * v1[2]
      m2 == v2[1] * v2[1] + v2[2] * v2[2]
  IN IF m1 * m2 = 0 THEN NaNDeg
     ELSE IF dot = 0 THEN 90
     ELSE IF dot * dot = m1 * m2 THEN (IF dot > 0 THEN 0 ELSE 180)
     ELSE IF dot > 0 THEN 45 ELSE 135

\* calculateCornerAngles(corners)
CalculateCornerAngles(c) ==
  <<CalculateAngle(c.bottomLeft, c.topLeft, c.topRight),
    CalculateAngle(c.topLeft, c.topRight, c.bottomRight),
    CalculateAngle(c.topRight, c.bottomRight, c.bottomLeft),
    CalculateAngle(c.bottomRight, c.bottomLeft, c.topLeft)>>

HasNaNDeg(angles) == \E i \in 1..4 : angles[i] = NaNDeg
SumOf(angles) == angles[1] + angles[2] + angles[3] + angles[4]

\* calculateSharpnessScore(corners): avgDeviation < 5 exactly when the sum
\* of the four deviations is < 20; every comparison with NaN is false
CalculateSharpnessScore(c) ==
  LET angles == CalculateCornerAngles(c)
      devs == [i \in 1..4 |-> Abs(angles[i] - 90)]
  IN IF HasNaNDeg(angles) THEN 40
     ELSE IF SumOf(devs) < 4 * 5 THEN 100
     ELSE IF SumOf(devs) < 4 * 10 THEN 80
     ELSE IF SumOf(devs) < 4 * 20 THEN 60
     ELSE 40

\* calculateConfidenceScore(corners): angleDeviation is
\* Math.abs(avgAngle - 90), avgAngle the mean of the four angles
CalculateConfidenceScore(c) ==
  IF ~IsValidQuadrilateral(c) THEN 20
  ELSE LET angles == CalculateCornerAngles(c)
           dev4 == Abs(SumOf(angles) - 4 * 90)
       IN IF HasNaNDeg(angles) THEN 50
          ELSE IF dev4 < 4 * 5 THEN 100
          ELSE IF dev4 < 4 * 10 THEN 85
          ELSE IF dev4 < 4 * 20 THEN 70
          ELSE 50

\* analyzeScanQuality(corners, frameWidth, frameHeight, history) at time t
AnalyzeScanQuality(c, w, h, hist, t) ==
  LET fillPercentage == CalculateFillPercentage(c, w, h)
      f == CalculateFillScore(fillPercentage)
      st == CalculateStabilityScore(c, hist, t)
      sh == CalculateSharpnessScore(c)
      cf == CalculateConfidenceScore(c)
      overall == Round(Weighted(f, st, sh, cf))
  IN [overall |-> overall, fillScore |-> f, stabilityScore |-> st,
      sharpnessScore |-> sh, confidenceScore |-> cf,
      level |-> LevelOf(overall),
      recommendation |->
        Recommendation(LevelOf(overall), fillPercentage, f, st, cf)]

\* Outlines with corners on a 3 x 3 grid of a 200 x 200 frame (any four
\* grid points, repeated ones included) and the 10% inset outline of a
\* 1000 x 1000 frame.
GridPoints == {<<x, y>> : x \in {0, 100, 200}, y \in {0, 100, 200}}
GridQuads ==
  {q \in [Corners -> GridPoints] :
     /\ IsOctant(<<q.topRight[1] - q.topLeft[1], q.topRight[2] - q.topLeft[2]>>)
     /\ IsOctant(<<q.bottomRight[1] - q.topRight[1],
                   q.bottomRight[2] - q.topRight[2]>>)
     /\ IsOctant(<<q.bottomLeft[1] - q.bottomRight[1],
                   q.bottomLeft[2] - q.bottomRight[2]>>)
     /\ IsOctant(<<q.topLeft[1] - q.bottomLeft[1],
                   q.topLeft[2] - q.bottomLeft[2]>>)}

AnalyzeInputs ==
  {[corners |-> q, frameWidth |-> 200, frameHeight |-> 200, done |-> FALSE,
    angles |-> <<>>, score |-> CompIdle] : q \in GridQuads}
  \cup {[corners |-> BaseQuad, frameWidth |-> 1000, frameHeight |-> 1000,
          done |-> FALSE, angles |-> <<>>, score |-> CompIdle]}

InitAnalyze ==
  /\ InitObjects /\ AppIdle /\ ScoresIdle /\ anz \in AnalyzeInputs
  /\ rect = Idle /\ geo = Idle /\ ord = Idle /\ dflt = Idle

\* analyzeScanQuality(corners, frameWidth, frameHeight) with the default
\* empty history; the four angles it computed are kept beside the result
Analyze ==
  /\ ~anz.done
  /\ anz' = [anz EXCEPT
              !.done = TRUE,
              !.angles = CalculateCornerAngles(anz.corners),
              !.score = AnalyzeScanQuality(anz.corners, anz.frameWidth,
                                           anz.frameHeight, <<>>, now)]
  /\ UNCHANGED <<ctlVars, obsVars, stream, trkVars, calcVars,
                 rect, geo, ord, dflt, appVars>>

NextAnalyze == Analyze

SpecAnalyze == InitAnalyze /\ [][NextAnalyze]_vars

\* ------------------------------------------------------- corner validation
IsNaNPt(p) == p[1] = NaNCoord \/ p[2] = NaNCoord
HasNaNPt(pts) == \E i \in 1..Len(pts) : IsNaNPt(pts[i])

\* The sign of the cross product pushed for corners[i], corners[(i+1) % 4],
\* corners[(i+2) % 4] (i counted from 1 here); a NaN coordinate in any of
\* the three points makes the product NaN.  A zero sign is counted as
\* positive in this variant.
CrossSign_ZeroPositive(pts, i) ==
  LET p1 == pts[i]
      p2 == pts[(i % 4) + 1]
      p3 == pts[((i + 1) % 4) + 1]
      cp == (p2[1] - p1[1]) * (p3[2] - p2[2]) - (p2[2] - p1[2]) * (p3[1] - p2[1])
  IN IF IsNaNPt(p1) \/ IsNaNPt(p2) \/ IsNaNPt(p3) THEN "nan"
     ELSE IF cp >= 0 THEN "pos"
     ELSE "neg"

CrossSign(pts, i) ==
  LET p1 == pts[i]
      p2 == pts[(i % 4) + 1]
      p3 == pts[((i + 1) % 4) + 1]
      cp == (p2[1] - p1[1]) * (p3[2] - p2[2]) - (p2[2] - p1[2]) * (p3[1] - p2[1])
  IN IF IsNaNPt(p1) \/ IsNaNPt(p2) \/ IsNaNPt(p3) THEN "nan"
     ELSE IF cp > 0 THEN "pos"
     ELSE IF cp < 0 THEN "neg"
     ELSE "zero"

\* allPositive || allNegative over the four cross products
SameSign(pts) ==
  \/ \A i \in 1..4 : CrossSign(pts, i) = "pos"
  \/ \A i \in 1..4 : CrossSign(pts, i) = "neg"

\* isValidQuadrilateral(corners: Point[]) of documentDetection
DetectionIsValidQuadrilateral(pts) ==
  IF Len(pts) # 4 THEN FALSE ELSE SameSign(pts)

\* distance(corners[i], corners[j]) < 10, the coordinates counted in
\* 1/unit px; false when the distance is NaN
TooClose(p, q, unit) ==
  /\ ~IsNaNPt(p) /\ ~IsNaNPt(q)
  /\ DistanceSq(p, q) < (MinCornerDistance * unit) * (MinCornerDistance * unit)

\* validateCorners(corners) of perspectiveCorrection, the coordinates
\* counted in 1/unit px
ValidateCornersIn(pts, unit) ==
  IF \E i \in 1..4 : \E j \in (i + 1)..4 : TooClose(pts[i], pts[j], unit)
  THEN FALSE
  ELSE SameSign(pts)

\* validateCorners(corners) of perspectiveCorrection on whole pixels
PerspectiveValidateCorners(pts) == ValidateCornersIn(pts, 1)

\* point.x < 0 || point.x > imageWidth || point.y < 0 || point.y >
\* imageHeight; every comparison with NaN is false
OutOfBounds(p, w, h) ==
  \/ (p[1] # NaNCoord /\ (p[1] < 0 \/ p[1] > w))
  \/ (p[2] # NaNCoord /\ (p[2] < 0 \/ p[2] > h))

\* twice calculatePolygonArea(corners), for corners without NaN
PolygonAreaTwice(pts) ==
  Abs((pts[1][1] * pts[2][2] - pts[2][1] * pts[1][2])
      + (pts[2][1] * pts[3][2] - pts[3][1] * pts[2][2])
      + (pts[3][1] * pts[4][2] - pts[4][1] * pts[3][2])
      + (pts[4][1] * pts[1][2] - pts[1][1] * pts[4][2]))

\* area < imageArea * 0.1, that is 5 * (2 area) < width * height; false
\* when the area is NaN.  The variant never finds the area too small.
AreaTooSmall_Never(pts, w, h) == FALSE

AreaTooSmall(pts, w, h) ==
  ~HasNaNPt(pts) /\ 5 * PolygonAreaTwice(pts) < w * h

\* validateCorners(corners, imageWidth, imageHeight) of edgeDetection, the
\* corners given as <<topLeft, topRight, bottomRight, bottomLeft>>
EdgeValidateCorners(pts, w, h) ==
  IF \E i \in 1..4 : OutOfBounds(pts[i], w, h) THEN FALSE
  ELSE IF AreaTooSmall(pts, w, h) THEN FALSE
  ELSE TRUE

\* How a call ends: with true, with false, or with an exception.
Outcome(b) == IF b THEN "true" ELSE "false"

\* orderCorners(points) throws unless it is given exactly four points
OrderCornersOutcome(pts) == IF Len(pts) # 4 THEN "threw" ELSE "returned"

\* Corner lists handed to the validators: any four points of a grid whose
\* nearest points are closer than the minimum distance, the 60 x 60 square
\* with one coordinate NaN, and lists that are too short or too long.
GeoCoords == {0, 6, 60}
GeoPoints == {<<x, y>> : x \in GeoCoords, y \in GeoCoords}
GeoSquare == <<(<<0, 0>>), (<<60, 0>>), (<<60, 60>>), (<<0, 60>>)>>
NaNLists ==
  {[GeoSquare EXCEPT ![i] = [GeoSquare[i] EXCEPT ![k] = NaNCoord]] :
     i \in 1..4, k \in 1..2}
WrongLengthLists ==
  {SubSeq(GeoSquare, 1, 3), GeoSquare \o <<(<<6, 6>>)>>}
\* the square with its bottom-right corner pushed inside: concave, a third
\* of the frame, every two corners far apart
DentedSquare == <<(<<0, 0>>), (<<60, 0>>), (<<20, 20>>), (<<0, 60>>)>>
GeoLists ==
  [1..4 -> GeoPoints] \cup {DentedSquare} \cup NaNLists \cup WrongLengthLists

\* the frames of the outlines: the square itself and a narrower one
GeoFrames == {<<60, 60>>, <<50, 60>>}

\* the functions called, and the lists and frames each one can be given:
\* the two validateCorners take exactly four corners by their types, and
\* only the one of edgeDetection takes a frame
GeoFns ==
  {"isValidQuadrilateral", "orderCorners",
   "perspectiveCorrection.validateCorners", "edgeDetection.validateCorners"}
TakesAnyLength(f) == f \in {"isValidQuadrilateral", "orderCorners"}
FramesOf(f) ==
  IF f = "edgeDetection.validateCorners" THEN GeoFrames ELSE {<<60, 60>>}

GeoInput(pts, f, fr) ==
  [points |-> pts, frameWidth |-> fr[1], frameHeight |-> fr[2], fn |-> f,
   done |-> FALSE, result |-> "none"]

InitGeo ==
  /\ InitObjects /\ AppIdle /\ ScoresIdle
  /\ \E pts \in GeoLists : \E f \in GeoFns : \E fr \in FramesOf(f) :
       /\ Len(pts) = 4 \/ TakesAnyLength(f)
       /\ geo = GeoInput(pts, f, fr)
  /\ rect = Idle /\ anz = Idle /\ ord = Idle /\ dflt = Idle

GeoCall(f, outcome) ==
  /\ ~geo.done /\ geo.fn = f
  /\ geo' = [geo EXCEPT !.done = TRUE, !.result = outcome]
  /\ UNCHANGED <<ctlVars, obsVars, stream, trkVars, calcVars,
                 rect, anz, ord, dflt, appVars>>

\* isValidQuadrilateral(corners)
CallIsValidQuadrilateral ==
  GeoCall("isValidQuadrilateral",
          Outcome(DetectionIsValidQuadrilateral(geo.points)))

\* validateCorners(corners) of perspectiveCorrection
CallPerspectiveValidate ==
  GeoCall("perspectiveCorrection.validateCorners",
          Outcome(PerspectiveValidateCorners(geo.points)))

\* validateCorners(corners, imageWidth, imageHeight) of edgeDetection
CallEdgeValidate ==
  GeoCall("edgeDetection.validateCorners",
          Outcome(EdgeValidateCorners(geo.points, geo.frameWidth,
                                      geo.frameHeight)))

\* orderCorners(points)
CallOrderCorners ==
  GeoCall("orderCorners", OrderCornersOutcome(geo.points))

NextGeo ==
  \/ CallIsValidQuadrilateral
  \/ CallPerspectiveValidate
  \/ CallEdgeValidate
  \/ CallOrderCorners

SpecGeo == InitGeo /\ [][NextGeo]_vars

\* ------------------------------------------------------------ orderCorners
\* The sorted list with e put behind every element whose key is not
\* larger: one step of a stable sort by coordinate k.
RECURSIVE InsertBy(_, _, _)
InsertBy(sorted, e, k) ==
  IF sorted = <<>> THEN <<e>>
  ELSE IF sorted[Len(sorted)][k] <= e[k] THEN Append(sorted, e)
  ELSE Append(InsertBy(SubSeq(sorted, 1, Len(sorted) - 1), e, k),
              sorted[Len(sorted)])

\* [...points].sort((a, b) => a[k] - b[k]); Array.prototype.sort is stable
RECURSIVE SortBy(_, _)
SortBy(pts, k) ==
  IF pts = <<>> THEN <<>>
  ELSE InsertBy(SortBy(SubSeq(pts, 1, Len(pts) - 1), k), pts[Len(pts)], k)

\* orderCorners(points) for four points
OrderCorners(pts) ==
  LET sorted == SortBy(pts, 2)
      topPoints == SortBy(SubSeq(sorted, 1, 2), 1)
      bottomPoints == SortBy(SubSeq(sorted, 3, 4), 1)
  IN [topLeft |-> topPoints[1], topRight |-> topPoints[2],
      bottomRight |-> bottomPoints[2], bottomLeft |-> bottomPoints[1]]

\* Rectangles on a grid of 10 px, each as the list of its corners: upright
\* ones, squares standing on a corner, and squares turned by less
\* than 45 degrees.
UprightRects ==
  {<<(<<0, 0>>), (<<10 * a, 0>>), (<<10 * a, 10 * b>>), (<<0, 10 * b>>)>> :
     a \in 1..MaxSide, b \in 1..MaxSide}
Diamonds ==
  {<<(<<10 * r, 0>>), (<<20 * r, 10 * r>>), (<<10 * r, 20 * r>>),
     (<<0, 10 * r>>)>> : r \in 1..MaxSide}
TurnedSquares ==
  {<<(<<10 * r, 0>>), (<<30 * r, 10 * r>>), (<<20 * r, 30 * r>>),
     (<<0, 20 * r>>)>> : r \in 1..MaxSide}
OrderRects == UprightRects \cup Diamonds \cup TurnedSquares

\* no corners assigned yet
AsCornersIdle == [c \in Corners |-> <<0, 0>>]

\* the 24 orderings of four corners
Perms == {f \in [1..4 -> 1..4] : \A i, j \in 1..4 : i # j => f[i] # f[j]}

OrderInputs ==
  {[rectangle |-> r, points |-> [i \in 1..4 |-> r[f[i]]], done |-> FALSE,
    result |-> AsCornersIdle] :
     r \in OrderRects, f \in Perms}

InitOrder ==
  /\ InitObjects /\ AppIdle /\ ScoresIdle /\ ord \in OrderInputs
  /\ rect = Idle /\ anz = Idle /\ geo = Idle /\ dflt = Idle

\* orderCorners(points)
CallOrder ==
  /\ ~ord.done
  /\ ord' = [ord EXCEPT !.done = TRUE, !.result = OrderCorners(ord.points)]
  /\ UNCHANGED <<ctlVars, obsVars, stream, trkVars, calcVars,
                 rect, anz, geo, dflt, appVars>>

NextOrder == CallOrder

SpecOrder == InitOrder /\ [][NextOrder]_vars

\* ---------------------------------------------------- createDefaultCorners
\* The default corners are counted in twentieths of a pixel: width * 0.05
\* is width twentieths.
Px == 20

\* createDefaultCorners(width, height), in 1/Px px
CreateDefaultCorners(width, height) ==
  LET insetX == width
      insetY == height
  IN <<(<<insetX, insetY>>),
       (<<Px * width - insetX, insetY>>),
       (<<Px * width - insetX, Px * height - insetY>>),
       (<<insetX, Px * height - insetY>>)>>

DefaultInputs ==
  {[width |-> w, height |-> h, done |-> FALSE, corners |-> <<>>,
    perspective |-> FALSE, edge |-> FALSE] :
     w \in 1..MaxDim, h \in 1..MaxDim}

InitDefault ==
  /\ InitObjects /\ AppIdle /\ ScoresIdle /\ dflt \in DefaultInputs
  /\ rect = Idle /\ anz = Idle /\ geo = Idle /\ ord = Idle

\* createDefaultCorners(width, height) and both validateCorners on what
\* it returned
DefaultRoundTrip ==
  /\ ~dflt.done
  /\ LET c == CreateDefaultCorners(dflt.width, dflt.height) IN
     dflt' = [dflt EXCEPT
               !.done = TRUE,
               !.corners = c,
               !.perspective = ValidateCornersIn(c, Px),
               !.edge = EdgeValidateCorners(c, Px * dflt.width,
                                            Px * dflt.height)]
  /\ UNCHANGED <<ctlVars, obsVars, stream, trkVars, calcVars,
                 rect, anz, geo, ord, appVars>>

NextDefault == DefaultRoundTrip

SpecDefault == InitDefault /\ [][NextDefault]_vars

\* ------------------------------------------------------ manual capture
\* A controller under any config is fed frames; the user presses the shutter
\* now and then.  manual records the last press: its time and whether a
\* hold streak was running when it came.
ManualIdle ==
  [done |-> FALSE, at |-> NullTime, inStreak |-> FALSE,
   deferredAt |-> NullTime]

InitManual ==
  /\ \E c \in Configs : InitObjectsAt(ClockStart, c)
  /\ ScoresIdle /\ GeoIdle
  /\ manual = ManualIdle /\ stable = Idle /\ e2e = Idle
  /\ fp = Idle /\ cam = Idle /\ crop = Idle

CallManualCapture ==
  /\ ManualCapture
  /\ manual' = [done |-> TRUE, at |-> now,
                inStreak |-> readyStartTime # NullTime,
                deferredAt |-> NullTime]

\* a frame whose hold period is complete and whose capture is held back
Deferred(r) ==
  /\ r.op = "processQuality" /\ r.isReady /\ ~r.shouldCapture
  /\ r.timeRemaining = 0

\* processQuality; manual.deferredAt is the time of the last frame of the
\* running streak whose capture was held back
FrameManual(q) ==
  /\ ProcessQualityWithin(q, MaxManualHistory)
  /\ manual' =
       [manual EXCEPT !.deferredAt =
          IF /\ Deferred(ret') /\ readyStartTime # NullTime
             /\ now > readyStartTime
            THEN now
          ELSE IF ret'.isReady /\ readyStartTime # NullTime
                 THEN manual.deferredAt
          ELSE NullTime]

NextManual ==
  \/ \E q \in Qualities :
       FrameManual(q)
       /\ UNCHANGED <<stream, trkVars, calcVars, geoVars,
                      stable, e2e, fp, cam, crop>>
  \/ CallManualCapture
     /\ UNCHANGED <<stream, trkVars, calcVars, geoVars,
                    stable, e2e, fp, cam, crop>>
  \/ Advance /\ UNCHANGED <<stream, trkVars, calcVars, geoVars, appVars>>

SpecManual == InitManual /\ [][NextManual]_vars

\* ----------------------------------------------------- fresh controller
\* A controller is constructed (lastCaptureTime = 0) and fed qualifying
\* frames only; the clock it reads starts at any of FreshStarts, a synthetic
\* clock starting at 0 included.
FreshStarts == {0, 500, 1000, ClockStart}

InitFresh ==
  /\ \E t \in FreshStarts : \E c \in Configs : InitObjectsAt(t, c)
  /\ AppIdle /\ ScoresIdle /\ GeoIdle

FrameFresh(q) == ProcessQualityWithin(q, MaxManualHistory)

NextFresh ==
  \/ \E q \in GoodFrames :
       FrameFresh(q)
       /\ UNCHANGED <<stream, trkVars, calcVars, geoVars, appVars>>
  \/ Advance /\ UNCHANGED <<stream, trkVars, calcVars, geoVars, appVars>>

SpecFresh == InitFresh /\ [][NextFresh]_vars

\* ------------------------------------------------------ isQualityStable
\* sum of the scores of a history
RECURSIVE ScoreSum(_)
ScoreSum(h) == IF h = <<>> THEN 0 ELSE h[1].score + ScoreSum(Tail(h))

\* n^2 times the sum of the squared deviations from the mean, total being
\* the sum of the n scores
RECURSIVE SquaredDeviations(_, _, _)
SquaredDeviations(h, n, total) ==
  IF h = <<>> THEN 0
  ELSE (n * h[1].score - total) * (n * h[1].score - total)
         + SquaredDeviations(Tail(h), n, total)

\* qualityHistory.filter(h => h.timestamp >= now - windowMs)
RecentScores(hist, t, windowMs) ==
  SelectSeq(hist, LAMBDA h : h.timestamp >= t - windowMs)

\* isQualityStable(windowMs, maxVariance); the variance sum / n is compared
\* with maxVariance after multiplying both sides by n^3
IsQualityStable(hist, t, windowMs, maxVariance) ==
  LET recent == RecentScores(hist, t, windowMs)
      n == Len(recent)
  IN IF n < 3 THEN FALSE
     ELSE SquaredDeviations(recent, n, ScoreSum(recent))
            <= maxVariance * n * n * n

\* Frames of three nearby scores; all of them are 'good' (overall >= 70).
StableFrames == [overall : {77, 80, 83}, level : {"good"}]
WindowsMs == {1000, 3000}
MaxVariances == {0, 6, 10}
EnablePartials == {p \in Partials : p.has = {"enabled"}}

\* stable.seen is the observer's own record of the scores of the frames
\* processed while enabled since the last reset or capture.
StableIdle ==
  [done |-> FALSE, windowMs |-> 0, maxVariance |-> 0, result |-> FALSE,
   seen |-> <<>>]
NotAsked(seen) == [StableIdle EXCEPT !.seen = seen]

InitStable ==
  /\ InitObjects /\ ScoresIdle /\ GeoIdle
  /\ manual = Idle /\ stable = StableIdle /\ e2e = Idle
  /\ fp = Idle /\ cam = Idle /\ crop = Idle

FrameStable(q) ==
  /\ ProcessQualityWithin(q, MaxStableHistory)
  /\ stable' =
       NotAsked(IF ~config.enabled THEN stable.seen
                ELSE IF ret'.shouldCapture THEN <<>>
                ELSE Append(stable.seen,
                            [score |-> q.overall, timestamp |-> now]))

CallIsQualityStable(w, m) ==
  /\ stable' = [done |-> TRUE, windowMs |-> w, maxVariance |-> m,
                result |-> IsQualityStable(qualityHistory, now, w, m),
                seen |-> stable.seen]
  /\ ret' = VoidRet
  /\ streak' = StreakKept
  /\ streakStart' = StreakStartKept
  /\ UNCHANGED <<ctlVars, lastFire, prevFire, afterFire>>

OthersStable == <<stream, trkVars, calcVars, geoVars, manual, e2e, fp, cam, crop>>

NextStable ==
  \/ \E q \in StableFrames : FrameStable(q) /\ UNCHANGED OthersStable
  \/ \E w \in WindowsMs : \E m \in MaxVariances :
       CallIsQualityStable(w, m) /\ UNCHANGED OthersStable
  \/ \E p \in EnablePartials :
       UpdateConfig(p) /\ stable' = NotAsked(stable.seen)
       /\ UNCHANGED OthersStable
  \/ Reset /\ stable' = StableIdle /\ UNCHANGED OthersStable
  \/ ManualCapture /\ stable' = StableIdle /\ UNCHANGED OthersStable
  \/ Advance /\ stable' = NotAsked(stable.seen) /\ UNCHANGED OthersStable

SpecStable == InitStable /\ [][NextStable]_vars

\* -------------------------------------------------------- frame pipeline
\* One way per frame: corner sample -> tracker -> analyzeScanQuality ->
\* processQuality.  The outline is BaseQuad in a 1000 x 1000 frame, held
\* still, a frame arriving every FrameSpacing ms, under the default config.
\* The sample of the frame is added to the tracker before the frame is
\* scored (addFirst) or after it.
\* the most entries qualityHistory holds at this frame rate
PipelineHistory == HistoryWindowMs \div FrameSpacing + 1

E2EStart(addFirst) ==
  [frames |-> 0, waiting |-> FALSE, addFirst |-> addFirst,
   firstGood |-> NullTime, prevStability |-> 0,
   score |-> AnalyzeScanQuality(BaseQuad, 1000, 1000, <<>>, ClockStart)]

InitE2E ==
  /\ InitObjects /\ ScoresIdle /\ GeoIdle
  /\ manual = Idle /\ stable = Idle
  /\ \E b \in BOOLEAN : e2e = E2EStart(b)
  /\ fp = Idle /\ cam = Idle /\ crop = Idle

\* the frame that arrives now goes through the pipeline
PipelineFrame ==
  /\ ~e2e.waiting /\ e2e.frames < MaxFrames
  /\ \E added \in {Retain(ShiftIfFull(Append(cornerHistory,
                                             [corners |-> BaseQuad,
                                              timestamp |-> now])), now)} :
       \E q \in {AnalyzeScanQuality(BaseQuad, 1000, 1000,
                                     IF e2e.addFirst THEN added
                                     ELSE cornerHistory, now)} :
         /\ cornerHistory' = added
         /\ ProcessQualityWithin(q, PipelineHistory)
         /\ e2e' = [e2e EXCEPT
                      !.frames = @ + 1, !.waiting = TRUE, !.score = q,
                      !.prevStability = e2e.score.stabilityScore,
                      !.firstGood =
                        IF @ = NullTime /\ q.overall >= 80 /\ q.level = "good"
                          THEN now ELSE @]
  /\ supplied' = supplied + 1
  /\ held' = Detached(held)
  /\ UNCHANGED <<stream, calcVars, geoVars, manual, stable, fp, cam, crop>>

\* FrameSpacing ms pass until the next frame arrives
PipelineWait ==
  /\ e2e.waiting
  /\ now' = now + FrameSpacing
  /\ e2e' = [e2e EXCEPT !.waiting = FALSE]
  /\ ret' = VoidRet
  /\ streak' = StreakKept
  /\ streakStart' = StreakStartKept
  /\ UNCHANGED <<config, qualityHistory, readyStartTime, lastCaptureTime,
                 lastFire, prevFire, afterFire>>
  /\ UNCHANGED <<stream, trkVars, calcVars, geoVars,
                 manual, stable, fp, cam, crop>>

NextE2E == PipelineFrame \/ PipelineWait

SpecE2E == InitE2E /\ [][NextE2E]_vars

\* -------------------------------------------------------- frame processor
\* camera.tsx: the worklet run on every camera frame, with its shared values
\* lastDetection, stableStartTime and hasTriggeredHaptic.  A rectangle is a
\* sequence of four points; NoRect stands for null.
StabilityThreshold == 300
StabilityDistance == 20
NoRect == <<>>

\* isRectangleStable(current, previous, STABILITY_DISTANCE)
IsRectangleStable(current, previous) ==
  IF current = NoRect \/ previous = NoRect THEN FALSE
  ELSE \A i \in 1..4 :
         LET dx == current[i][1] - previous[i][1]
             dy == current[i][2] - previous[i][2]
         IN ~(dx * dx + dy * dy > StabilityDistance * StabilityDistance)

\* twice calculateRectangleArea(corners)
RectangleAreaTwice(c) ==
  LET a == c[1][1] * c[2][2] - c[2][1] * c[1][2]
           + c[2][1] * c[3][2] - c[3][1] * c[2][2]
           + c[3][1] * c[4][2] - c[4][1] * c[3][2]
           + c[4][1] * c[1][2] - c[1][1] * c[4][2]
  IN IF a < 0 THEN 0 - a ELSE a

\* isRectangleLargeEnough(corners, frameWidth, frameHeight): area / frameArea
\* >= 0.2, false for the NaN of a frame without area
IsRectangleLargeEnough(c, w, h) ==
  w * h # 0 /\ 5 * RectangleAreaTwice(c) >= 2 * w * h

\* mutant: the stable state is reported from the first stable frame on
StabilityReached_AtOnce(t, start) == TRUE

\* now - stableStartTime.value >= STABILITY_THRESHOLD
StabilityReached(t, start) == t - start >= StabilityThreshold

\* Results of the detector on a 1000 x 1000 frame: the 10% inset rectangle,
\* the same moved by 20 px and by 30 px, a rectangle of 16% of the frame,
\* and null.
ShiftedRect(d) ==
  <<<<100 + d[1], 100 + d[2]>>, <<900 + d[1], 100 + d[2]>>,
    <<900 + d[1], 900 + d[2]>>, <<100 + d[1], 900 + d[2]>>>>
SmallRect == <<<<300, 300>>, <<700, 300>>, <<700, 700>>, <<300, 700>>>>
Detections ==
  {ShiftedRect(d) : d \in {<<0, 0>>, <<12, 16>>, <<30, 0>>}}
    \cup {SmallRect, NoRect}

\* The shared values after the hooks ran, and the observer's own account:
\* streakFrom is the time of the first of the stable frames that came in a
\* row up to now (NullTime if the last frame was not stable), inStreak the
\* number of haptics invoked in that row, total the number invoked at all.
FpStart ==
  [lastDetection |-> NoRect, stableStartTime |-> 0,
   hasTriggeredHaptic |-> FALSE,
   haptic |-> FALSE, autoCapture |-> FALSE, stable |-> FALSE,
   handledAt |-> NullTime, streakFrom |-> NullTime, inStreak |-> 0,
   total |-> 0]

InitFrameProcessor ==
  /\ InitObjects /\ ScoresIdle /\ GeoIdle
  /\ manual = Idle /\ stable = Idle /\ e2e = Idle
  /\ fp = FpStart /\ cam = Idle /\ crop = Idle

\* frameProcessor(frame), detected being what detectRectangleInFrame returned
FrameProcessor(detected) ==
  /\ fp.handledAt # now
  /\ LET ok == detected # NoRect
               /\ IsRectangleLargeEnough(detected, 1000, 1000)
         isStable == ok /\ IsRectangleStable(detected, fp.lastDetection)
         reached == /\ isStable /\ fp.stableStartTime # 0
                    /\ StabilityReached(now, fp.stableStartTime)
         haptic == reached /\ ~fp.hasTriggeredHaptic
     IN fp' =
          [lastDetection |-> IF ok THEN detected ELSE fp.lastDetection,
           stableStartTime |->
             IF ~isStable THEN 0
             ELSE IF fp.stableStartTime = 0 THEN now
             ELSE fp.stableStartTime,
           hasTriggeredHaptic |->
             IF ~isStable THEN FALSE ELSE fp.hasTriggeredHaptic \/ haptic,
           haptic |-> haptic,
           autoCapture |-> haptic,
           stable |-> isStable,
           handledAt |-> now,
           streakFrom |->
             IF ~isStable THEN NullTime
             ELSE IF fp.streakFrom = NullTime THEN now
             ELSE fp.streakFrom,
           inStreak |->
             IF ~isStable THEN 0
             ELSE fp.inStreak + (IF haptic THEN 1 ELSE 0),
           total |-> fp.total + (IF haptic THEN 1 ELSE 0)]
  /\ UNCHANGED <<ctlVars, obsVars, stream, trkVars, calcVars, geoVars,
                 manual, stable, e2e, cam, crop>>

\* the clock moves on to the next frame
FrameProcessorWait ==
  /\ now + FrameTick <= ClockStart + MaxFpTicks * FrameTick
  /\ now' = now + FrameTick
  /\ UNCHANGED <<config, qualityHistory, readyStartTime, lastCaptureTime,
                 obsVars, stream, trkVars, calcVars, geoVars, appVars>>

NextFrameProcessor ==
  \/ \E d \in Detections : FrameProcessor(d)
  \/ FrameProcessorWait

SpecFrameProcessor == InitFrameProcessor /\ [][NextFrameProcessor]_vars

\* ----------------------------------------------------------- camera screen
\* camera.tsx: the React state autoCapture and isCapturing, the callbacks
\* that closed over the values of the render that created them, and the
\* calls of takePhoto that have not resolved.  A state update is taken to be
\* rendered at once; what stays asynchronous is runOnJS: the worklet thread
\* hands triggerAutoCapture, as the frame processor captured it, to the JS
\* thread, which runs it when it gets to it.
\*   queue      the callbacks handed over and not yet run, each with the
\*              autoCapture and isCapturing it closed over
\*   inFlight   takePhoto calls started and not resolved
\*   started    takePhoto calls started
\*   autoStale  triggerAutoCapture started a capture while the toggle was
\*              off or a capture was in progress
CamStart ==
  [autoCapture |-> FALSE, isCapturing |-> FALSE, queue |-> <<>>,
   inFlight |-> 0, started |-> 0, autoStale |-> FALSE]

InitCamera ==
  /\ InitObjects /\ ScoresIdle /\ GeoIdle
  /\ manual = Idle /\ stable = Idle /\ e2e = Idle
  /\ fp = Idle /\ cam = CamStart /\ crop = Idle

\* handleCapture() of a render whose isCapturing was capturing: returns at
\* once if it was true, else setIsCapturing(true) and takePhoto()
HandleCapture(c, capturing) ==
  IF capturing THEN c
  ELSE [c EXCEPT !.isCapturing = TRUE, !.inFlight = @ + 1,
                 !.started = @ + 1]

\* triggerAutoCapture() of a render whose state was snap
TriggerAutoCapture(c, snap) ==
  IF snap.autoCapture /\ ~snap.isCapturing
    THEN HandleCapture(c, snap.isCapturing)
    ELSE c

CamOthers ==
  <<ctlVars, obsVars, stream, trkVars, calcVars, geoVars,
    manual, stable, e2e, fp, crop>>

\* the Switch: onValueChange={setAutoCapture}
ToggleAutoCapture ==
  /\ cam' = [cam EXCEPT !.autoCapture = ~@]
  /\ UNCHANGED CamOthers

\* the frame processor of the current render: runOnJS(triggerAutoCapture)()
DispatchAutoCapture ==
  /\ Len(cam.queue) < MaxQueued
  /\ cam' = [cam EXCEPT !.queue =
               Append(@, [autoCapture |-> cam.autoCapture,
                          isCapturing |-> cam.isCapturing])]
  /\ UNCHANGED CamOthers

\* the JS thread runs the callback at the head of its queue
RunAutoCapture ==
  /\ cam.queue # <<>>
  /\ cam.started < MaxPhotos
  /\ LET snap == Head(cam.queue)
         after == TriggerAutoCapture([cam EXCEPT !.queue = Tail(@)], snap)
     IN cam' = [after EXCEPT !.autoStale =
                  @ \/ (after.started > cam.started
                        /\ (~cam.autoCapture \/ cam.isCapturing))]
  /\ UNCHANGED CamOthers

\* the shutter button: onPress={handleCapture}, disabled={isCapturing}
PressShutter ==
  /\ ~cam.isCapturing
  /\ cam.started < MaxPhotos
  /\ cam' = HandleCapture(cam, cam.isCapturing)
  /\ UNCHANGED CamOthers

\* takePhoto resolves or rejects: finally { setIsCapturing(false) }
TakePhotoSettles ==
  /\ cam.inFlight > 0
  /\ cam' = [cam EXCEPT !.inFlight = @ - 1, !.isCapturing = FALSE]
  /\ UNCHANGED CamOthers

NextCamera ==
  \/ ToggleAutoCapture
  \/ DispatchAutoCapture
  \/ RunAutoCapture
  \/ PressShutter
  \/ TakePhotoSettles

SpecCamera == InitCamera /\ [][NextCamera]_vars

\* --------------------------------------------------------------- crop step
\* A captured image goes to the crop step: detectEdges proposes corners, the
\* user may move them, applyPerspectiveCorrection crops.  Corners are a
\* sequence <<topLeft, topRight, bottomRight, bottomLeft>> in whole pixels;
\* the image sides are multiples of 20 px, so 5% of a side is a whole number.

\* detectEdges(imageUri, imageWidth, imageHeight)
DetectEdges(w, h) ==
  LET insetX == w \div 20
      insetY == h \div 20
  IN [corners |-> <<(<<insetX, insetY>>), (<<w - insetX, insetY>>),
                    (<<w - insetX, h - insetY>>), (<<insetX, h - insetY>>)>>,
      confidence |-> <<1, 2>>,
      method |-> "default"]

MinOf(S) == CHOOSE x \in S : \A y \in S : x <= y

\* the crop action pushed for the bounding box of the corners; none is
\* pushed (pushed = FALSE) when the box is the whole image within 1%
CropAction(c, w, h) ==
  LET minX == MinOf({c[i][1] : i \in 1..4})
      minY == MinOf({c[i][2] : i \in 1..4})
      maxX == MaxOf({c[i][1] : i \in 1..4})
      maxY == MaxOf({c[i][2] : i \in 1..4})
  IN IF \/ 100 * minX > w \/ 100 * minY > h
        \/ 100 * (maxX - minX) < 99 * w \/ 100 * (maxY - minY) < 99 * h
       THEN [pushed |-> TRUE, originX |-> minX, originY |-> minY,
             width |-> maxX - minX, height |-> maxY - minY]
       ELSE [pushed |-> FALSE, originX |-> 0, originY |-> 0,
             width |-> w, height |-> h]

\* the value returned from the catch block
FailedResult(uri, c, w, h) ==
  [correctedUri |-> uri, width |-> w, height |-> h,
   appliedCorners |-> c, success |-> FALSE]

\* applyPerspectiveCorrection(imageUri, corners, imageWidth, imageHeight);
\* manipulated is whether ImageManipulator.manipulateAsync resolved, and the
\* image it resolves with has the size of the crop
ApplyPerspectiveCorrection(uri, c, w, h, manipulated) ==
  LET action == CropAction(c, w, h) IN
  IF manipulated
    THEN [correctedUri |-> "manipulated",
          width |-> action.width,
          height |-> action.height,
          appliedCorners |-> c, success |-> TRUE]
    ELSE FailedResult(uri, c, w, h)

\* Corners the user leaves the overlay with: the whole image, all four on
\* one point, the inner half of the image with two corners swapped, and a
\* frame around the image.
CropSides == {200, 400, 1000}
WholeImage(w, h) == <<(<<0, 0>>), (<<w, 0>>), (<<w, h>>), (<<0, h>>)>>
OnePoint(w, h) ==
  LET m == <<w \div 2, h \div 2>> IN <<m, m, m, m>>
Swapped(w, h) ==
  <<(<<w \div 4, h \div 4>>), (<<3 * (w \div 4), 3 * (h \div 4)>>),
    (<<3 * (w \div 4), h \div 4>>), (<<w \div 4, 3 * (h \div 4)>>)>>
Outside(w, h) ==
  <<(<<0 - 20, 0 - 20>>), (<<w + 20, 0 - 20>>), (<<w + 20, h + 20>>),
    (<<0 - 20, h + 20>>)>>
AdjustedCorners(w, h) ==
  {WholeImage(w, h), OnePoint(w, h), Swapped(w, h), Outside(w, h)}

CropStart(w, h) ==
  [imageUri |-> "original", imageWidth |-> w, imageHeight |-> h,
   detected |-> FALSE, confidence |-> Zero, corners |-> <<>>,
   done |-> FALSE, manipulated |-> FALSE,
   result |-> FailedResult("original", <<>>, w, h)]

InitCrop ==
  /\ InitObjects /\ ScoresIdle /\ GeoIdle
  /\ manual = Idle /\ stable = Idle /\ e2e = Idle
  /\ fp = Idle /\ cam = Idle
  /\ \E w \in CropSides : \E h \in CropSides : crop = CropStart(w, h)

CropOthers ==
  <<ctlVars, obsVars, stream, trkVars, calcVars, geoVars,
    manual, stable, e2e, fp, cam>>

\* the crop step asks detectEdges for the corners to start from
CallDetectEdges ==
  /\ ~crop.detected
  /\ LET r == DetectEdges(crop.imageWidth, crop.imageHeight) IN
     crop' = [crop EXCEPT !.detected = TRUE, !.corners = r.corners,
                          !.confidence = r.confidence]
  /\ UNCHANGED CropOthers

\* onCornersChange(corners)
AdjustCorners ==
  /\ crop.detected /\ ~crop.done
  /\ \E c \in AdjustedCorners(crop.imageWidth, crop.imageHeight) :
       crop' = [crop EXCEPT !.corners = c]
  /\ UNCHANGED CropOthers

\* applyPerspectiveCorrection on the corners in hand
CallApplyPerspectiveCorrection ==
  /\ crop.detected /\ ~crop.done
  /\ \E m \in BOOLEAN :
       crop' = [crop EXCEPT
                  !.done = TRUE, !.manipulated = m,
                  !.result =
                    ApplyPerspectiveCorrection(crop.imageUri, crop.corners,
                                               crop.imageWidth,
                                               crop.imageHeight, m)]
  /\ UNCHANGED CropOthers

NextCrop ==
  \/ CallDetectEdges
  \/ AdjustCorners
  \/ CallApplyPerspectiveCorrection

SpecCrop == InitCrop /\ [][NextCrop]_vars

\* ------------------------------------------------------------------ claims
\* The claims' own reading of "the score qualifies".
MeetsClaim(q) == q.overall >= config.minQualityScore /\ q.level = "good"
Fired == ret.op = "processQuality" /\ ret.shouldCapture

\* C1  No false trigger: whenever processQuality returns shouldCapture=true,
\* every frame processed while enabled since readyStartTime was set had a
\* qualifying score, the time since readyStartTime was set is at least
\* holdDurationMs, and with holdDurationMs > 0 the firing frame is not the
\* first frame of its streak.
C1_NoFalseTrigger ==
  Fired =>
    /\ streak \in {"clean", "stale", "resumed"}
    /\ streakStart # NullTime
    /\ now - streakStart >= config.holdDurationMs
    /\ config.holdDurationMs > 0 => (streakStart < now /\ ret.was # NullTime)

C1_Witness ==
  Fired /\ streak = "clean" /\ config.holdDurationMs > 0 /\ streakStart < now

\* C2  On an enabled call with a qualifying score, shouldCapture is true iff
\* now - readyStartTime >= holdDurationMs and now - lastCaptureTime >= 2000,
\* readyStartTime being the value after null was replaced by now; on every
\* other call shouldCapture is false.
C2_FiresIff ==
  [][\A q \in Qualities :
       ProcessQuality(q) =>
         IF config.enabled /\ MeetsClaim(q)
           THEN LET r == IF readyStartTime = NullTime THEN now
                         ELSE readyStartTime
                IN ret'.shouldCapture <=>
                     (now - r >= config.holdDurationMs
                      /\ now - lastCaptureTime >= 2000)
           ELSE ~ret'.shouldCapture]_vars

\* hold period complete, capture held back by the 2000 ms interval alone
C2_Witness ==
  /\ ret.op = "processQuality" /\ ret.isReady /\ ~ret.shouldCapture
  /\ now - readyStartTime >= config.holdDurationMs
  /\ now - lastCaptureTime < 2000

\* C3  Two processQuality calls that both return shouldCapture=true are at
\* least 2000 ms apart and at least holdDurationMs apart.
C3_NoRetrigger ==
  (Fired /\ prevFire # NullTime) =>
    /\ lastFire = now
    /\ now - prevFire >= 2000
    /\ now - prevFire >= config.holdDurationMs

C3_Witness ==
  Fired /\ prevFire # NullTime /\ config.holdDurationMs > 2000

\* C4  Right after a call that returned shouldCapture=true at time t the
\* controller is idle (readyStartTime null, isInProgress false),
\* lastCaptureTime = t and the history is empty; after a qualifying call
\* that did not fire isInProgress is true; after a non-qualifying enabled
\* call isInProgress is false.
C4_IdleAfterFire ==
  [][\A q \in Qualities :
       ProcessQuality(q) =>
         /\ ret'.shouldCapture =>
              (~IsInProgress' /\ lastCaptureTime' = now
               /\ qualityHistory' = <<>>)
         /\ (config.enabled /\ MeetsClaim(q) /\ ~ret'.shouldCapture)
              => IsInProgress'
         /\ (config.enabled /\ ~MeetsClaim(q)) => ~IsInProgress']_vars

C4_Witness ==
  /\ Fired /\ ~IsInProgress /\ lastCaptureTime = now /\ qualityHistory = <<>>
  /\ ret.was # NullTime

\* C5  Any dip restarts the hold from zero: an enabled call with a
\* non-qualifying score sets readyStartTime to null and returns
\* isReady=false, progress=0, timeRemaining=holdDurationMs,
\* shouldCapture=false; the first qualifying frame of the next streak has
\* elapsed time 0, whatever streaks came before.
C5_DipRestarts ==
  [][\A q \in Qualities :
       (ProcessQuality(q) /\ config.enabled) =>
         /\ ~MeetsClaim(q) =>
              /\ readyStartTime' = NullTime
              /\ ~ret'.isReady /\ ret'.progress = Zero
              /\ ret'.timeRemaining = config.holdDurationMs
              /\ ~ret'.shouldCapture
         /\ (MeetsClaim(q) /\ readyStartTime = NullTime) =>
              /\ ret'.timeRemaining = config.holdDurationMs
              /\ config.holdDurationMs > 0 =>
                   (ret'.progress = Zero /\ readyStartTime' = now)]_vars

\* a streak was running and an enabled dip ended it
C5_Witness ==
  /\ ret.op = "processQuality" /\ ~ret.isReady /\ config.enabled
  /\ ret.was # NullTime /\ ret.was < now /\ readyStartTime = NullTime

\* C6  A stream that stays >= 80 and 'good' for holdDurationMs and then
\* drops to 0 yields exactly one result with shouldCapture=true: one by the
\* time the hold period is complete, and still one after the drop.
C6_ExactlyOneCapture ==
  stream.phase \in {"held", "dropped"} => stream.fires = 1

C6_Witness ==
  /\ stream.phase = "dropped" /\ stream.fires = 1
  /\ ret.op = "processQuality" /\ ~ret.isReady

\* C7 as stated: the next qualifying frame after the firing frame is
\* reported with isReady=false.
C7_NextFrameNotReady ==
  [][\A q \in Qualities :
       (ProcessQuality(q) /\ config.enabled /\ MeetsClaim(q) /\ afterFire)
         => ~ret'.isReady]_vars

\* C7 amended: the next qualifying frame after the firing frame is reported
\* with isReady=true and starts a new hold period at elapsed time 0
\* (timeRemaining = holdDurationMs; with holdDurationMs > 0, progress = 0 and
\* shouldCapture=false); every later shouldCapture=true belongs to a hold
\* period that began at or after the earlier fire and lasted holdDurationMs.
C7_NextFrameStartsNewHold ==
  [][\A q \in Qualities :
       (ProcessQuality(q) /\ config.enabled /\ MeetsClaim(q)) =>
         /\ afterFire =>
              /\ ret'.isReady
              /\ ret'.timeRemaining = config.holdDurationMs
              /\ config.holdDurationMs > 0 =>
                   (ret'.progress = Zero /\ ~ret'.shouldCapture)
         /\ (ret'.shouldCapture /\ lastFire # NullTime) =>
              /\ streakStart' >= lastFire
              /\ now - streakStart' >= config.holdDurationMs]_vars

C7_Witness ==
  /\ ret.op = "processQuality" /\ ret.isReady /\ ret.progress = Zero
  /\ ~ret.shouldCapture /\ lastFire # NullTime /\ ~afterFire
  /\ streakStart = now /\ qualityHistory # <<>> /\ Len(qualityHistory) = 1
  /\ config.holdDurationMs > 0

\* C8  Debounce: a qualifying streak that completes its hold period less than
\* 2000 ms after an earlier fire does not return shouldCapture=true.
C8_Debounce ==
  [][\A q \in Qualities :
       (/\ ProcessQuality(q) /\ config.enabled /\ MeetsClaim(q)
        /\ lastFire # NullTime /\ now - lastFire < 2000)
         => ~ret'.shouldCapture]_vars

\* the second streak began after the fire and its hold period is complete
C8_Witness ==
  /\ ret.op = "processQuality" /\ ret.isReady /\ ~ret.shouldCapture
  /\ lastFire # NullTime /\ streakStart >= lastFire
  /\ config.holdDurationMs > 0
  /\ now - streakStart >= config.holdDurationMs
  /\ ret.timeRemaining = 0 /\ now - lastFire < 2000

\* C9  While config.enabled is false, processQuality returns isReady=false,
\* progress=0, timeRemaining=0, shouldCapture=false for every score and
\* leaves readyStartTime, lastCaptureTime and the history unchanged.
C9_DisabledIsInert ==
  [][\A q \in Qualities :
       (ProcessQuality(q) /\ ~config.enabled) =>
         /\ ~ret'.isReady /\ ret'.progress = Zero
         /\ ret'.timeRemaining = 0 /\ ~ret'.shouldCapture
         /\ UNCHANGED <<readyStartTime, lastCaptureTime, qualityHistory>>]_vars

\* a disabled call made in the middle of a hold period
C9_Witness ==
  /\ ret.op = "processQuality" /\ ~config.enabled /\ ~ret.isReady
  /\ readyStartTime # NullTime /\ qualityHistory # <<>>
  /\ config.holdDurationMs > 0 /\ ret.timeRemaining = 0

\* C10  Re-enabling resumes: updateConfig and the frames processed while
\* disabled leave readyStartTime and lastCaptureTime as they were, and the
\* first qualifying frame after re-enabling measures elapsed from the old
\* readyStartTime and the debounce from the old lastCaptureTime, so it can
\* return shouldCapture=true at once.
C10_ReenableResumes ==
  [][/\ config' # config => UNCHANGED <<readyStartTime, lastCaptureTime>>
     /\ \A q \in Qualities :
          ProcessQuality(q) =>
            /\ ~config.enabled
                 => UNCHANGED <<readyStartTime, lastCaptureTime>>
            /\ (config.enabled /\ MeetsClaim(q) /\ streak = "stale") =>
                 /\ readyStartTime # NullTime
                 /\ ret'.timeRemaining =
                      Max(0, config.holdDurationMs - (now - readyStartTime))
                 /\ ret'.shouldCapture <=>
                      (now - readyStartTime >= config.holdDurationMs
                       /\ now - lastCaptureTime >= 2000)]_vars

\* the frame after re-enabling fired on the strength of the old streak
C10_Witness ==
  /\ Fired /\ streak = "resumed" /\ config.holdDurationMs > 0
  /\ ret.was # NullTime /\ ret.was = streakStart
  /\ now - streakStart >= config.holdDurationMs

\* a number that lies in [0, 1]
InUnit(x) == x[2] > 0 /\ 0 <= x[1] /\ x[1] <= x[2]

\* C11  Every AutoCaptureState returned by processQuality, for every
\* holdDurationMs (0 included), has progress in [0, 1] and
\* timeRemaining >= 0.
C11_ProgressInUnitInterval ==
  ret.op = "processQuality" => (InUnit(ret.progress) /\ ret.timeRemaining >= 0)

\* C12  updateConfig with a partial config replaces exactly the supplied
\* fields, keeps every field that was not supplied, and leaves
\* readyStartTime, lastCaptureTime and the quality history unchanged.
C12_PartialMerge ==
  [][\A p \in AllPartials :
       UpdateConfig(p) =>
         /\ \A f \in p.has : config'[f] = p.val[f]
         /\ \A f \in ConfigFields \ p.has : config'[f] = config[f]
         /\ UNCHANGED <<readyStartTime, lastCaptureTime, qualityHistory>>]_vars

\* fields set by separate updates are all still there in the middle of a
\* hold period
C12_Witness ==
  /\ ret.op = "void" /\ ~config.vibrateFeedback
  /\ config.minQualityScore = 50 /\ config.holdDurationMs = 2500
  /\ config.enabled /\ readyStartTime # NullTime /\ qualityHistory # <<>>

\* C13  The corner history holds at most 20 samples after every add and
\* clear, and an add made while it holds 20 drops the oldest sample: the
\* first one is gone, the new one is the last, and every other sample not
\* older than 1000 ms is still there.
C13_BoundedHistory ==
  /\ [](Len(cornerHistory) <= 20)
  /\ [][(supplied' # supplied /\ Len(cornerHistory) = 20) =>
          /\ \A i \in 1..Len(cornerHistory') :
               cornerHistory'[i] # cornerHistory[1]
          /\ cornerHistory' # <<>>
          /\ cornerHistory'[Len(cornerHistory')] =
               [corners |-> supplied', timestamp |-> now]
          /\ \A i \in 2..20 :
               cornerHistory[i].timestamp >= now - 1000 =>
                 \E j \in 1..Len(cornerHistory') :
                   cornerHistory'[j] = cornerHistory[i]]_vars

\* the 21st quad went in while the first 20 were all still retained
C13_Witness ==
  /\ supplied = 21 /\ Len(cornerHistory) = 20
  /\ cornerHistory[1].corners = 2 /\ cornerHistory[20].corners = 21
  /\ cornerHistory[1].timestamp < now

\* C14  Right after every add at time t the history ends with the new
\* sample and holds no sample with timestamp < t - 1000.
C14_RetentionOnAdd ==
  [][supplied' # supplied =>
       /\ cornerHistory' # <<>>
       /\ cornerHistory'[Len(cornerHistory')] =
            [corners |-> supplied', timestamp |-> now]
       /\ \A i \in 1..Len(cornerHistory') :
            cornerHistory'[i].timestamp >= now - 1000]_vars

\* the add dropped the first quad by age and kept the second
C14_Witness ==
  /\ supplied = 3 /\ Len(cornerHistory) = 2
  /\ cornerHistory[1].corners = 2 /\ cornerHistory[1].timestamp < now
  /\ cornerHistory[2] = [corners |-> 3, timestamp |-> now]

\* C15  The stored samples change only in a step of the tracker's own add
\* or clear; a caller holding the value returned by getHistory cannot
\* change them.
C15_OnlyTrackerMutates ==
  [][cornerHistory' # cornerHistory => (TrackerAdd \/ TrackerClear)]_vars

\* The claims' reading of the stability inputs: the samples of age <= 500 ms
\* and the largest corner displacement (squared) among a set of samples.
InWindow == {i \in 1..Len(stab.history) : now - stab.history[i].timestamp <= 500}
MoveSqOf(i) ==
  MaxOf({DistanceSq(stab.current[c], stab.history[i].corners[c]) :
           c \in Corners})
WorstSq(I) == MaxOf({0} \cup {MoveSqOf(i) : i \in I})

\* C16  Stability decision table: empty history scores 0; n < 5 samples of
\* age <= 500 ms score n/5*50; n >= 5 such samples score 100, 70, 40 or 20
\* as the largest corner displacement to an in-window sample is <= 10,
\* <= 20, <= 30 or > 30 px; samples older than 500 ms do not influence the
\* score.
C16_StabilityTable ==
  stab.score # NoScore =>
    LET n == Cardinality(InWindow)
        w == WorstSq(InWindow)
    IN /\ stab.history = <<>> => stab.score = 0
       /\ n < 5 => 5 * stab.score = n * 50
       /\ n >= 5 =>
            stab.score = IF w <= 100 THEN 100
                         ELSE IF w <= 400 THEN 70
                         ELSE IF w <= 900 THEN 40 ELSE 20
       /\ stab.score \in {0, 10, 20, 30, 40, 70, 100}

\* five or more in-window samples, and an older sample that moved > 30 px
C16_Witness ==
  /\ stab.score = 100 /\ Cardinality(InWindow) >= 5
  /\ \E i \in 1..Len(stab.history) : i \notin InWindow /\ MoveSqOf(i) > 900

\* C17 as stated: the score is 100 when 5 or more samples within 500 ms all
\* have every corner within 10 px, and 20 when any sample exceeds 30 px.
C17_AnySampleOver30 ==
  stab.score # NoScore =>
    /\ (Cardinality(InWindow) >= 5 /\ WorstSq(InWindow) <= 100)
         => stab.score = 100
    /\ (\E i \in 1..Len(stab.history) : MoveSqOf(i) > 900)
         => stab.score = 20

\* C17 amended: the score is 100 when 5 or more samples within 500 ms all
\* have every corner within 10 px, and 20 when there are 5 or more samples
\* within 500 ms and one of them exceeds 30 px.
C17_StableAndUnstable ==
  stab.score # NoScore =>
    /\ (Cardinality(InWindow) >= 5 /\ WorstSq(InWindow) <= 100)
         => stab.score = 100
    /\ (Cardinality(InWindow) >= 5 /\ WorstSq(InWindow) > 900)
         => stab.score = 20

\* five samples in the window of which one moved by more than 30 px, next
\* to samples outside the window
C17_Witness ==
  /\ stab.score = 20 /\ Cardinality(InWindow) >= 5
  /\ WorstSq(InWindow) > 900 /\ Len(stab.history) > Cardinality(InWindow)

C19_ZeroFrameScoresZero ==
  (fillc.done /\ fillc.frameWidth * fillc.frameHeight = 0) =>
    (fillc.ratio = Zero /\ fillc.score = Zero)

\* C20  For every combination of sub-scores, overall is
\* round(0.25*fill + 0.30*stability + 0.25*sharpness + 0.20*confidence) and
\* lies in 0..100; level is 'good' iff overall >= 70, 'fair' iff
\* 40 <= overall <= 69, 'poor' iff overall < 40; so with
\* minQualityScore >= 70 the controller's test accepts every frame whose
\* overall meets the threshold.
C20_CompositeAndLevel ==
  comp.done =>
    LET f == comp.fillScore
        n == 100 * f[1]
             + f[2] * (120 * comp.stabilityScore + 100 * comp.sharpnessScore
                       + 80 * comp.confidenceScore)
        d == 400 * f[2]
        o == comp.overall
    IN /\ 2 * d * o <= 2 * n + d
       /\ 2 * n + d < 2 * d * (o + 1)
       /\ 0 <= o /\ o <= 100
       /\ comp.level = "good" <=> o >= 70
       /\ comp.level = "fair" <=> (40 <= o /\ o <= 69)
       /\ comp.level = "poor" <=> o < 40
       /\ \A m \in 70..100 :
            o >= m =>
              Qualifies([overall |-> o, level |-> comp.level],
                        [DefaultConfig EXCEPT !.minQualityScore = m])

\* a weighted sum of exactly 69.5 was rounded up to 70 and is 'good'
C20_Witness ==
  /\ comp.done /\ comp.overall = 70 /\ comp.level = "good"
  /\ comp.fillScore = <<94, 1>> /\ comp.stabilityScore = 40
  /\ comp.sharpnessScore = 80 /\ comp.confidenceScore = 70

\* the recommendations that tell the user to move, and to hold steady
MoveRecs ==
  {"Move closer to document", "Move back from document",
   "Document too small - move closer", "Document too large - move back"}
HoldSteadyRecs ==
  {"Hold device steady", "Hold device steady and ensure good lighting"}

\* C21  At the 'fair' and at the 'poor' level the recommendation follows one
\* order: a low fill score gives a move-closer / move-back recommendation;
\* when fill is not low and stability is the weakest sub-score, the
\* recommendation is a hold-steady one.
C21_RecommendationOrder ==
  (comp.done /\ comp.level \in {"fair", "poor"}) =>
    LET low == FracLt(comp.fillScore,
                      Whole(IF comp.level = "fair" THEN 60 ELSE 40))
        weakest == /\ FracLt(Whole(comp.stabilityScore), comp.fillScore)
                   /\ comp.stabilityScore < comp.sharpnessScore
                   /\ comp.stabilityScore < comp.confidenceScore
    IN /\ low => comp.recommendation \in MoveRecs
       /\ (~low /\ weakest) => comp.recommendation \in HoldSteadyRecs

\* the claims' reading of "min/max >= 0.8" for two sides given by the
\* squares of their lengths
AtLeast80(a2, b2) == Max(a2, b2) > 0 /\ 25 * Min(a2, b2) >= 16 * Max(a2, b2)
SidesAtLeast80(c) ==
  /\ AtLeast80(DistanceSq(c.topLeft, c.topRight),
               DistanceSq(c.bottomLeft, c.bottomRight))
  /\ AtLeast80(DistanceSq(c.topLeft, c.bottomLeft),
               DistanceSq(c.topRight, c.bottomRight))

\* C22  A quad that passes the rectangularity check gets the confidence
\* score of the average of its four deviations |angle - 90|: < 5 gives 100,
\* < 10 gives 85, < 20 gives 70, otherwise 50; a quad that fails the check
\* gets 20.
C22_ConfidenceByAvgDeviation ==
  (anz.done /\ ~HasNaNDeg(anz.angles)) =>
    LET dev4 == SumOf([i \in 1..4 |-> Abs(anz.angles[i] - 90)]) IN
    anz.score.confidenceScore =
      IF ~IsValidQuadrilateral(anz.corners) THEN 20
      ELSE IF dev4 < 20 THEN 100
      ELSE IF dev4 < 40 THEN 85
      ELSE IF dev4 < 80 THEN 70
      ELSE 50

\* C23  The rectangularity check passes iff min/max >= 0.8 for the (top,
\* bottom) width pair and for the (left, right) height pair; a ratio of
\* exactly 0.8 passes.
C23_RatioAtLeast80 ==
  rect.done => (rect.valid <=> SidesAtLeast80(rect.corners))

\* C25  Degenerate input yields sentinels: the angle at a vertex with a
\* zero-length edge is 0, and no sub-score and no overall score is NaN.
C25_AngleSentinel ==
  anz.done =>
    LET c == anz.corners
        at == <<c.topLeft, c.topRight, c.bottomRight, c.bottomLeft>>
        prev(i) == at[IF i = 1 THEN 4 ELSE i - 1]
        next(i) == at[IF i = 4 THEN 1 ELSE i + 1]
    IN /\ \A i \in 1..4 :
            (at[i] = prev(i) \/ at[i] = next(i)) => anz.angles[i] = 0
       /\ \A i \in 1..4 : anz.angles[i] \in 0..180
       /\ anz.score.fillScore # NaN
       /\ anz.score.overall \in 0..100
       /\ anz.score.stabilityScore \in 0..100
       /\ anz.score.sharpnessScore \in 0..100
       /\ anz.score.confidenceScore \in 0..100

\* (q - p) x (r - p): zero exactly when p, q, r lie on one line
Turn(p, q, r) ==
  (q[1] - p[1]) * (r[2] - p[2]) - (q[2] - p[2]) * (r[1] - p[1])
\* the list as an outline
AsCorners(pts) ==
  [topLeft |-> pts[1], topRight |-> pts[2],
   bottomRight |-> pts[3], bottomLeft |-> pts[4]]
\* an axis-aligned rectangle of positive width and height in TL, TR, BR,
\* BL order
IsUprightRect(pts) ==
  /\ pts[1][2] = pts[2][2] /\ pts[3][2] = pts[4][2]
  /\ pts[1][1] = pts[4][1] /\ pts[2][1] = pts[3][1]
  /\ pts[1][1] < pts[2][1] /\ pts[1][2] < pts[4][2]
\* the four turns of the outline, taken at each corner from its two
\* neighbours
Turns(pts) ==
  {Turn(pts[1], pts[2], pts[3]), Turn(pts[2], pts[3], pts[4]),
   Turn(pts[3], pts[4], pts[1]), Turn(pts[4], pts[1], pts[2])}
IsConvexCall ==
  /\ geo.done /\ geo.fn \in {"isValidQuadrilateral",
                              "perspectiveCorrection.validateCorners"}
  /\ Len(geo.points) = 4 /\ ~HasNaNPt(geo.points)
FarApart(pts) ==
  \A i \in 1..4 : \A j \in 1..4 :
    i # j => DistanceSq(pts[i], pts[j]) >= MinCornerDistance * MinCornerDistance

\* C24  The convexity check returns true iff the four cross products of
\* consecutive edges are all strictly positive or all strictly negative:
\* a quad with a repeated point, three collinear points or zero area is
\* rejected, and an axis-aligned rectangle of positive size given in TL,
\* TR, BR, BL order is accepted.  (validateCorners of perspectiveCorrection
\* runs the same check after its distance test.)
C24_StrictConvexity ==
  IsConvexCall =>
    LET pts == geo.points
        strict == (\A t \in Turns(pts) : t > 0) \/ (\A t \in Turns(pts) : t < 0)
        checked == geo.fn = "isValidQuadrilateral" \/ FarApart(pts)
    IN /\ geo.result = "true" => strict
       /\ (checked /\ strict) => geo.result = "true"
       /\ (\E i \in 1..4 : \E j \in 1..4 : i # j /\ pts[i] = pts[j])
            => geo.result = "false"
       /\ (\E i \in 1..4 : \E j \in 1..4 : \E k \in 1..4 :
             i # j /\ j # k /\ i # k /\ Turn(pts[i], pts[j], pts[k]) = 0)
            => geo.result = "false"
       /\ ShoelaceTwice(AsCorners(pts)) = 0 => geo.result = "false"
       /\ (checked /\ IsUprightRect(pts)) => geo.result = "true"

\* three distinct corners on one line, the outline enclosing a positive
\* area, and the check returned false
C24_Witness ==
  /\ IsConvexCall /\ geo.fn = "isValidQuadrilateral"
  /\ geo.result = "false"
  /\ \A i \in 1..4 : \A j \in 1..4 : i # j => geo.points[i] # geo.points[j]
  /\ 0 \in Turns(geo.points)
  /\ ShoelaceTwice(AsCorners(geo.points)) > 0

\* C26  Malformed input is rejected without throwing: every function
\* returns false for a list whose length is not 4 and for corners with a
\* NaN coordinate.
C26_MalformedRejected ==
  (geo.done /\ (Len(geo.points) # 4 \/ HasNaNPt(geo.points))) =>
    geo.result = "false"

\* C28  validateCorners(corners, width, height) returns false for every
\* quad whose shoelace area is below 10% of width * height, in-bounds and
\* convex ones included.
C28_SmallAreaRejected ==
  (/\ geo.done /\ geo.fn = "edgeDetection.validateCorners"
   /\ ~HasNaNPt(geo.points)
   /\ 10 * ShoelaceTwice(AsCorners(geo.points))
        < 2 * geo.frameWidth * geo.frameHeight)
    => geo.result = "false"

\* an in-bounds convex quad of positive area below 10% of the frame was
\* rejected
C28_Witness ==
  /\ geo.done /\ geo.fn = "edgeDetection.validateCorners"
  /\ ~HasNaNPt(geo.points)
  /\ \A i \in 1..4 : ~OutOfBounds(geo.points[i], geo.frameWidth, geo.frameHeight)
  /\ (\A t \in Turns(geo.points) : t > 0)
  /\ 10 * ShoelaceTwice(AsCorners(geo.points))
       < 2 * geo.frameWidth * geo.frameHeight
  /\ geo.result = "false"

\* C29  validateCorners(corners, width, height) returns true only if every
\* corner is in bounds, every two corners are at least the minimum
\* distance apart, the area is at least 10% of the frame and the quad is
\* convex.
C29_AllFourConditions ==
  (/\ geo.done /\ geo.fn = "edgeDetection.validateCorners"
   /\ ~HasNaNPt(geo.points) /\ geo.result = "true")
    => LET pts == geo.points IN
       /\ \A i \in 1..4 :
            /\ pts[i][1] \in 0..geo.frameWidth
            /\ pts[i][2] \in 0..geo.frameHeight
       /\ FarApart(pts)
       /\ 10 * ShoelaceTwice(AsCorners(pts))
            >= 2 * geo.frameWidth * geo.frameHeight
       /\ (\A t \in Turns(pts) : t > 0) \/ (\A t \in Turns(pts) : t < 0)

\* C27  orderCorners is permutation-invariant: whichever of the 24
\* orderings of a rectangle's corners it is given, it returns the TL / TR /
\* BR / BL assignment it returns for the corners in their own order.
C27_PermutationInvariant ==
  ord.done => ord.result = OrderCorners(ord.rectangle)

\* C30  For every positive width and height the corners returned by
\* createDefaultCorners pass validation.
C30_DefaultCornersValid ==
  dflt.done => (dflt.perspective /\ dflt.edge)

\* C38  With holdDurationMs > 0 every state returned by processQuality is
\* consistent: shouldCapture implies isReady, progress = 1 and
\* timeRemaining = 0; isReady = false implies progress = 0 and
\* shouldCapture = false; and getHapticPattern returns 'heavy' exactly for
\* the states with shouldCapture.
C38_StateConsistent ==
  (ret.op = "processQuality" /\ config.holdDurationMs > 0) =>
    /\ ret.shouldCapture =>
         (ret.isReady /\ ret.progress = One /\ ret.timeRemaining = 0)
    /\ ~ret.isReady => (ret.progress = Zero /\ ~ret.shouldCapture)
    /\ GetHapticPattern(ret) = "heavy" <=> ret.shouldCapture

\* a capture state, shown as 'heavy', after a hold of a positive duration
C38_Witness ==
  /\ Fired /\ config.holdDurationMs > 0
  /\ ret.progress = One /\ GetHapticPattern(ret) = "heavy"

\* C37  manualCapture at time t sets lastCaptureTime to t, clears
\* readyStartTime and the quality history and leaves the config unchanged;
\* no processQuality call earlier than t + 2000 ms returns
\* shouldCapture=true, and a hold streak that was running at t starts again
\* from zero: the next capture's streak began at t or later and lasted
\* holdDurationMs of its own.
C37_ManualCaptureResets ==
  [][/\ CallManualCapture =>
          /\ lastCaptureTime' = now
          /\ readyStartTime' = NullTime
          /\ qualityHistory' = <<>>
          /\ config' = config
     /\ (manual'.done /\ ret'.op = "processQuality") =>
          /\ ret'.shouldCapture => now' >= manual'.at + 2000
          /\ ret'.isReady =>
               /\ streakStart' >= manual'.at
               /\ ret'.progress =
                    Progress(now' - streakStart', config'.holdDurationMs)
          /\ ret'.shouldCapture =>
               now' - streakStart' >= config'.holdDurationMs]_vars

\* the first capture after a press that interrupted a hold streak
C37_Witness ==
  /\ manual.done /\ manual.inStreak /\ Fired
  /\ config.holdDurationMs > 0
  /\ streakStart >= manual.at /\ now >= manual.at + 2000

\* C36  A debounced capture is deferred, not lost: on a qualifying frame
\* that comes after the start of its streak and at which the hold period is
\* complete, while now - lastCaptureTime < 2000 readyStartTime is retained
\* and the state is isReady=true, progress=1, timeRemaining=0,
\* shouldCapture=false; on the first such frame with
\* now - lastCaptureTime >= 2000 shouldCapture=true is returned.
C36_DeferredNotLost ==
  [][\A q \in Qualities :
       (/\ FrameManual(q) /\ config.enabled /\ MeetsClaim(q)
        /\ readyStartTime # NullTime /\ now > readyStartTime
        /\ now - readyStartTime >= config.holdDurationMs)
         => IF now - lastCaptureTime < 2000
              THEN /\ readyStartTime' = readyStartTime
                   /\ ret'.isReady /\ ret'.progress = One
                   /\ ret'.timeRemaining = 0 /\ ~ret'.shouldCapture
              ELSE ret'.shouldCapture]_vars

\* a capture returned on a frame later than one of the same streak on which
\* it was held back
C36_Witness ==
  /\ Fired /\ config.holdDurationMs > 0 /\ ret.progress = One
  /\ manual.deferredAt # NullTime /\ manual.deferredAt < now
  /\ streakStart < manual.deferredAt

\* C39  For a freshly constructed controller the first hold completion is
\* not delayed by the debounce: whatever the clock value at which the frames
\* start, the first qualifying streak fires on the first frame with
\* elapsed >= holdDurationMs.
C39_FirstHoldNotDelayed ==
  (/\ ret.op = "processQuality" /\ ret.isReady
   /\ now - streakStart >= config.holdDurationMs
   /\ \/ lastFire = NullTime
      \/ lastFire = now /\ prevFire = NullTime /\ afterFire)
    => ret.shouldCapture

\* C33  isQualityStable(windowMs, maxVariance) returns true iff at least 3
\* scores were recorded within the last windowMs and their population
\* variance is below maxVariance; frames processed while disabled or before
\* the last reset or capture are not counted.
C33_StableIffBelow ==
  stable.done =>
    LET recent == RecentScores(stable.seen, now, stable.windowMs)
        n == Len(recent)
    IN stable.result <=>
         /\ n >= 3
         /\ SquaredDeviations(recent, n, ScoreSum(recent))
              < stable.maxVariance * n * n * n

\* C32  End to end: a 1000 x 1000 frame, the outline at 10% inset, no
\* movement, a frame every 50 ms, default config.  Every frame scores fill
\* 100, sharpness 100 and confidence 100; stability never falls, is 100
\* from the sixth frame on, and overall is 100 with it; and up to the first
\* capture shouldCapture=true is returned exactly on the frames 1500 ms or
\* more after the first frame that qualified, so on the first of them and
\* on no earlier frame.
C32_EndToEnd ==
  e2e.waiting =>
    /\ e2e.score.fillScore = Whole(100)
    /\ e2e.score.sharpnessScore = 100
    /\ e2e.score.confidenceScore = 100
    /\ e2e.score.stabilityScore >= e2e.prevStability
    /\ e2e.frames > MinStabilitySamples => e2e.score.stabilityScore = 100
    /\ e2e.score.stabilityScore = 100 => e2e.score.overall = 100
    /\ (\/ lastFire = NullTime
        \/ lastFire = now /\ prevFire = NullTime /\ afterFire)
         => (ret.shouldCapture <=>
               /\ e2e.firstGood # NullTime
               /\ now - e2e.firstGood >= 1500)

\* the first capture: the frame 1500 ms after the first qualifying frame
C32_Witness ==
  /\ e2e.waiting /\ Fired /\ prevFire = NullTime
  /\ e2e.score.overall = 100 /\ e2e.score.stabilityScore = 100
  /\ now - e2e.firstGood = 1500

\* C34  In the frame processor the haptic, and with it the auto-capture
\* trigger, is invoked at most once in a continuous stable streak and only
\* once the streak has lasted at least 300 ms; a frame that is unstable,
\* has a too small rectangle or has no detection resets the streak start
\* and re-arms the trigger.
C34_HapticOncePerStreak ==
  /\ fp.inStreak <= 1
  /\ fp.haptic <=> fp.autoCapture
  /\ fp.haptic =>
       /\ fp.streakFrom # NullTime
       /\ now - fp.streakFrom >= 300
  /\ (fp.handledAt # NullTime /\ ~fp.stable) =>
       /\ fp.stableStartTime = 0
       /\ ~fp.hasTriggeredHaptic

\* the haptic of a second streak, the first one having had its own
C34_Witness ==
  /\ fp.haptic /\ fp.total = 2 /\ fp.inStreak = 1
  /\ now - fp.streakFrom >= 300

\* C35  Auto-capture only triggers if the auto toggle is enabled and no
\* capture is in progress: across every interleaving of frame-processor
\* callbacks, presses of the shutter and completions of takePhoto, no
\* takePhoto is started while an earlier one is in flight.
C35_OneTakePhotoInFlight ==
  /\ cam.inFlight <= 1
  /\ ~cam.autoStale

\* C31  Failure policy: a capture whose corners fail validation is not
\* aborted, its crop proceeds with the default inset corners and the fixed
\* low confidence; and when the image manipulation fails,
\* applyPerspectiveCorrection resolves with success=false and the original
\* image URI, width and height.
C31_FailurePolicy ==
  crop.done =>
    /\ ~crop.manipulated =>
         /\ ~crop.result.success
         /\ crop.result.correctedUri = crop.imageUri
         /\ crop.result.width = crop.imageWidth
         /\ crop.result.height = crop.imageHeight
    /\ ~PerspectiveValidateCorners(crop.corners) =>
         /\ crop.result.appliedCorners =
              DetectEdges(crop.imageWidth, crop.imageHeight).corners
         /\ crop.confidence = <<1, 2>>

====
